---- MODULE Spec2Model ----
(***************************************************************************)
(* Model of the iteration engine of jset-desk (src/src/image.rs):          *)
(* IterMap::new and IterMap::reiterate with their worker threads and       *)
(* completion channel, IterMapChunk::iterate / reiterate, and the three    *)
(* point iterators (specification Spec).                                   *)
(*                                                                         *)
(* The functions around the engine have specifications of their own, each  *)
(* drawing the arguments from a bounded set: a point iterator (IterSpec),  *)
(* the main loop's Redraw and Load messages (UiSpec), RGB (RgbSpec),       *)
(* ColorMap::make and get (ColorMapSpec), IterMap::color (ColorImageSpec), *)
(* FImage32::to_rgb8 (ToRgb8Spec) and the view algebra of ImageDims        *)
(* (ViewSpec).  LiveSpec is Spec with the fairness of the dispatch loop    *)
(* and of the worker threads.  LoopSpec is the control loop of main.rs:    *)
(* the message handlers and Globs::recheck_and_redraw.  Three more cover   *)
(* the windows under src/src/ui: ImgPane::set_image (PaneSpec), the list   *)
(* of gradient choosers of ColorPaneGuts (GutsSpec) and the coefficient    *)
(* rows of IterPane (IterPaneSpec).                                        *)
(*                                                                         *)
(* Arithmetic.  The program computes with f64.  The model computes with    *)
(* fixed-point numbers: an integer r stands for the value r / Q, every     *)
(* product and quotient is rounded (towards minus infinity) to a multiple  *)
(* of 1/Q, as every f64 operation is rounded to a representable value.     *)
(* The divergence threshold is scaled down with the number range.          *)
(***************************************************************************)
EXTENDS Integers, Sequences, FiniteSets, TLC

\* ------------------------------------------------------------------ bounds
Q          == 4      \* fixed-point resolution: units per 1.0
Xpix       == 2      \* the pixel width drawn for dims.xpix
MaxYpix    == 5      \* largest pixel height drawn for dims.ypix
MaxThreads == 2      \* largest value drawn for N_THREADS
MaxLimit   == 3      \* largest iteration limit passed to new / reiterate

\* ------------------------------------------------------- program constants
SQ_MOD_LIMIT      == 16    \* image.rs:22 (1.0e100 there; scaled to the model's range)
CHUNKS_PER_THREAD == 2     \* image.rs:29

\* ------------------------------------------------------ fixed-point "f64"
FromInt(n)  == n * Q                 \* `n as f64`
FxMul(a, b) == (a * b) \div Q
FxDiv(a, b) == (a * Q) \div b

\* ------------------------------------------------------------- cx.rs: Cx
Cx(re, im) == [re |-> re, im |-> im]
CxZero == Cx(0, 0)
CxOne  == Cx(FromInt(1), 0)

CxAdd(z, w) == Cx(z.re + w.re, z.im + w.im)
CxMul(z, w) == Cx(FxMul(z.re, w.re) - FxMul(z.im, w.im),
                  FxMul(z.re, w.im) + FxMul(z.im, w.re))
sqmod(z)    == FxMul(z.re, z.re) + FxMul(z.im, z.im)

\* The divergence test of all three iterators.
Diverged(z) == sqmod(z) > FromInt(SQ_MOD_LIMIT)

\* -------------------------------------------------------- the iterators
\* What an iterator returns when the test succeeds in pass n of `for n in 0..limit`.
EscapeCountOffByOne(n) == n + 1
EscapeCount(n) == n

RECURSIVE MandelLoop(_, _, _, _)
MandelLoop(z, c, n, limit) ==
    IF n >= limit THEN limit
    ELSE LET z2 == CxAdd(CxMul(z, z), c)
         IN  IF Diverged(z2) THEN EscapeCount(n)
             ELSE MandelLoop(z2, c, n + 1, limit)

mandlebrot_iterator(c, limit) == MandelLoop(CxZero, c, 0, limit)

RECURSIVE PseudoLoop(_, _, _, _, _)
PseudoLoop(a, z, pseudo_c, n, limit) ==
    IF n >= limit THEN limit
    ELSE LET z2 == CxAdd(CxMul(CxMul(a, z), z), pseudo_c)
         IN  IF Diverged(z2) THEN EscapeCount(n)
             ELSE PseudoLoop(a, z2, pseudo_c, n + 1, limit)

pseudomandle_iterator(a, b, c, limit) == PseudoLoop(a, CxZero, CxMul(b, c), 0, limit)

\* polyiter_maker: `let deg = v.len() - 1` underflows on an empty vector.
\* A build with overflow checks (debug) panics right there, when the closure
\* is built.  A build without them (release) wraps deg to usize::MAX and
\* panics later, at the slice `v[0..deg]`, in the first pass of the first
\* call of the closure with limit > 0.
PolyMakerPanics(v, overflow_checks) == Len(v) = 0 /\ overflow_checks
PolyCallPanics(v, limit)            == Len(v) = 0 /\ limit > 0

\* the inner loop `for a in v[0..deg]`: returns <<tot, w>>
RECURSIVE PolyTerms(_, _, _, _, _)
PolyTerms(v, i, deg, acc, z) ==
    IF i > deg THEN acc
    ELSE PolyTerms(v, i + 1, deg,
                   <<CxAdd(acc[1], CxMul(v[i], acc[2])), CxMul(acc[2], z)>>, z)

PolyEvalTimesZ(v, z) ==
    LET deg == Len(v) - 1
        tw  == PolyTerms(v, 1, deg, <<CxZero, z>>, z)
    IN  CxAdd(tw[1], CxMul(v[deg + 1], tw[2]))
PolyEval(v, z) ==
    LET deg == Len(v) - 1
        tw  == PolyTerms(v, 1, deg, <<CxZero, CxOne>>, z)
    IN  CxAdd(tw[1], CxMul(v[deg + 1], tw[2]))

RECURSIVE PolyLoop(_, _, _, _)
PolyLoop(v, z, n, limit) ==
    IF n >= limit THEN limit
    ELSE LET z2 == PolyEval(v, z)
         IN  IF Diverged(z2) THEN EscapeCount(n)
             ELSE PolyLoop(v, z2, n + 1, limit)

polynomial_iterator_from_zero(v, c, limit) == PolyLoop(v, CxZero, 0, limit)
polynomial_iterator(v, c, limit) == PolyLoop(v, c, 0, limit)

\* ----------------------------------------------------------- IterType
Mandlebrot             == [type |-> "Mandlebrot", a |-> CxZero, b |-> CxZero, coefs |-> <<>>]
PseudoMandlebrot(a, b) == [type |-> "PseudoMandlebrot", a |-> a, b |-> b, coefs |-> <<>>]
Polynomial(coefs)      == [type |-> "Polynomial", a |-> CxZero, b |-> CxZero, coefs |-> coefs]

\* the `match self.itertype.clone()` of IterMapChunk::iterate / reiterate
MakerPanics(it, overflow_checks) ==
    it.type = "Polynomial" /\ PolyMakerPanics(it.coefs, overflow_checks)

\* a call f(c, limit) of the closure built by that match
CallPanics(it, limit) == it.type = "Polynomial" /\ PolyCallPanics(it.coefs, limit)

\* the count the call returns; a call that panics returns none, and -1
\* stands for that
IterFn(it, c, limit) ==
    IF CallPanics(it, limit) THEN -1
    ELSE CASE it.type = "Mandlebrot"       -> mandlebrot_iterator(c, limit)
           [] it.type = "PseudoMandlebrot" -> pseudomandle_iterator(it.a, it.b, c, limit)
           [] it.type = "Polynomial"       -> polynomial_iterator(it.coefs, c, limit)

\* ----------------------------------------------------------- ImageDims
ImageDims(xpix, ypix, x, y, width) ==
    [xpix |-> xpix, ypix |-> ypix, x |-> x, y |-> y, width |-> width]

\* ImageDims::height: self.width * (self.ypix as f64) / (self.xpix as f64)
height(d) == FxDiv(FxMul(d.width, FromInt(d.ypix)), FromInt(d.xpix))

\* The row whose plane y a chunk computes for its k-th row (k from 0).
ChunkRowRelative(y_start, k) == k
ChunkRow(y_start, k) == y_start + k

\* The plane point of pixel (row yp, column xp), as both chunk loops compute it.
PlanePoint(d, xp, yp) ==
    LET y_frac == FxDiv(FromInt(yp), FromInt(d.ypix))
        y      == d.y - FxMul(y_frac, height(d))
        x_frac == FxDiv(FromInt(xp), FromInt(d.xpix))
        x      == d.x + FxMul(x_frac, d.width)
    IN  Cx(x, y)

\* -------------------------------------------------------- IterMapChunk
\* dims and itertype, which every chunk holds as a copy of the map's, are
\* passed to the chunk operators instead of being stored in each record.
IterMapChunk(y_start, n_rows, last_limit, data) ==
    [y_start |-> y_start, n_rows |-> n_rows, last_limit |-> last_limit, data |-> data]

\* pixel idx (from 1) of a chunk: its row offset and its column
RowOf(d, idx) == (idx - 1) \div d.xpix
ColOf(d, idx) == (idx - 1) % d.xpix

\* IterMapChunk::iterate
ChunkIterate(d, it, imc, limit) ==
    LET n_pix    == d.xpix * imc.n_rows
        new_data == [idx \in 1..n_pix |->
                        IterFn(it, PlanePoint(d, ColOf(d, idx),
                                              ChunkRow(imc.y_start, RowOf(d, idx))), limit)]
    IN  IterMapChunk(imc.y_start, imc.n_rows, limit, new_data)

ChunkIteratePanics(d, it, imc, limit, overflow_checks) ==
    \/ MakerPanics(it, overflow_checks)
    \/ d.xpix * imc.n_rows > 0 /\ CallPanics(it, limit)

\* The test of IterMapChunk::reiterate that selects the pixels to recompute.
StillAliveAtNewLimit(value, last_limit, limit) == value = limit
StillAlive(value, last_limit, limit) == value = last_limit

\* (variant: the plane row is taken relative to the chunk, not to the image)
ChunkReiterateRelativeRow(d, it, imc, limit) ==
    IF limit < imc.last_limit THEN imc
    ELSE LET data == [idx \in 1..Len(imc.data) |->
                        IF StillAlive(imc.data[idx], imc.last_limit, limit)
                        THEN IterFn(it, PlanePoint(d, ColOf(d, idx), RowOf(d, idx)), limit)
                        ELSE imc.data[idx]]
         IN  IterMapChunk(imc.y_start, imc.n_rows, limit, data)

\* IterMapChunk::reiterate
ChunkReiterateFromTop(d, it, imc, limit) ==
    ChunkIterate(d, it, IterMapChunk(0, imc.n_rows, imc.last_limit, imc.data), limit)
ChunkReiterate(d, it, imc, limit) ==
    IF limit < imc.last_limit THEN imc
    ELSE LET data == [idx \in 1..Len(imc.data) |->
                        IF StillAlive(imc.data[idx], imc.last_limit, limit)
                        THEN IterFn(it, PlanePoint(d, ColOf(d, idx),
                                                   ChunkRow(imc.y_start, RowOf(d, idx))), limit)
                        ELSE imc.data[idx]]
         IN  IterMapChunk(imc.y_start, imc.n_rows, limit, data)

ChunkReiteratePanics(d, it, imc, limit, overflow_checks) ==
    /\ ~(limit < imc.last_limit)
    /\ \/ MakerPanics(it, overflow_checks)
       \/ /\ CallPanics(it, limit)
          /\ \E idx \in 1..Len(imc.data) : StillAlive(imc.data[idx], imc.last_limit, limit)

\* ------------------------------------------------------------- IterMap
\* IterMap::new, lines 664-666
NChunks(T)                        == CHUNKS_PER_THREAD * T
ChunkHeight(ypix, n_chunks)       == ypix \div n_chunks
LastChunkHeightDropped(ypix, n_chunks) == 0
LastChunkHeight(ypix, n_chunks)   == ypix % n_chunks

\* IterMap::new, lines 668-692: the queue of chunks still to be iterated
MakeChunks(d, T) ==
    LET n_chunks          == NChunks(T)
        chunk_height      == ChunkHeight(d.ypix, n_chunks)
        last_chunk_height == LastChunkHeight(d.ypix, n_chunks)
        full == [n \in 1..n_chunks |->
                    IterMapChunk((n - 1) * chunk_height, chunk_height, 0, <<>>)]
    IN  IF last_chunk_height > 0
        THEN Append(full, IterMapChunk(n_chunks * chunk_height, last_chunk_height, 0, <<>>))
        ELSE full

\* Vec::pop: the last element leaves the vector
Last(s)    == s[Len(s)]
AllButLast(s) == SubSeq(s, 1, Len(s) - 1)

\* done_chunks.sort_by_key(|imc| imc.y_start): a stable sort
RECURSIVE InsertByKey(_, _)
InsertByKey(sorted, imc) ==
    IF sorted = <<>> \/ Last(sorted).y_start <= imc.y_start
    THEN Append(sorted, imc)
    ELSE Append(InsertByKey(AllButLast(sorted), imc), Last(sorted))

RECURSIVE StableSort(_)
StableSort(s) ==
    IF s = <<>> THEN <<>> ELSE InsertByKey(StableSort(AllButLast(s)), Last(s))

SortByYStartSkipped(s) == s
SortByYStart(s) == StableSort(s)

\* the condition of the dispatch loop (lines 698 and 761)
StillCollectingAllButOne(done, n) == Len(done) + 1 < n
StillCollecting(done, n) == Len(done) < n

\* the two tests of the dispatch loop (lines 699 and 716, 762 and 772)
CanDispatch(active, T)       == active < T
MustWaitOnlyWhenDrained(active, T, queue) == queue = <<>>
MustWait(active, T, queue) == active = T \/ queue = <<>>

\* the dispatcher's in-flight counter (lines 713 and 725, 769 and 774)
AfterSpawnUncounted(active) == active
AfterSpawn(active) == active + 1
AfterRecvUncounted(active) == active
AfterRecv(active)  == active - 1

\* the early return of IterMap::reiterate (line 753)
LimitShrank(new_limit, cur_limit) == new_limit < cur_limit
LimitDidNotGrow(new_limit, cur_limit) == new_limit <= cur_limit

\* ------------------------------------------------------------------ inputs
\* the plane region of the program's first view (main.rs:177-183), at every
\* pixel height from 0 to MaxYpix
Views == { ImageDims(Xpix, yp, FromInt(-2), FromInt(1), FromInt(3)) : yp \in 0..MaxYpix }

IterTypes == { Mandlebrot,
               PseudoMandlebrot(Cx(0, FromInt(1)), Cx(FromInt(2), 0)),
               Polynomial(<<>>),
               Polynomial(<<Cx(FromInt(-1), 0), CxZero, CxOne>>) }

\* ------------------------------------------------------------------- state
VARIABLES
    dims,            \* the view passed to IterMap::new
    itertype,        \* the rule passed to IterMap::new
    N_THREADS,       \* the lazily initialised physical core count
    overflow_checks, \* whether the build checks integer overflow
    pc,              \* where the caller is: "start", "new_loop", "new_recv",
                     \* "idle" (a map exists, no call running), "reit_loop", "reit_recv"
    imap,            \* the IterMap: [limit, chunks]
    to_process,      \* IterMap::new: chunks not yet dispatched
    n_chunks,        \* the number of chunks the running call must collect
    done_chunks,     \* chunks collected so far by the running call
    active_threads,  \* the dispatcher's in-flight counter
    running,         \* spawned workers that have not finished: [op, limit, imc]
    chan,            \* the completion channel: chunks sent, not yet received
    panicked,        \* number of workers that panicked (their txc dropped unsent)
    call,            \* history: the latest call, [op, limit]
    prev,            \* history: imap as it was when the latest reiterate was called
    recv_order,      \* history: y_start of the chunks received by the latest call, in order
    applied,         \* the function a single-call specification has applied ("none" before)
    input,           \* the arguments of that call
    output           \* its result

vars == <<dims, itertype, N_THREADS, overflow_checks, pc, imap, to_process, n_chunks,
          done_chunks, active_threads, running, chan, panicked, call, prev, recv_order,
          applied, input, output>>

\* what no step of the engine changes
inputs == <<dims, itertype, N_THREADS, overflow_checks, applied, input, output>>

NoMap == [limit |-> 0, chunks |-> <<>>]

Init ==
    /\ dims \in Views
    /\ itertype \in IterTypes
    /\ N_THREADS \in 1..MaxThreads
    \* overflow checks only matter where an overflow can happen
    /\ overflow_checks \in (IF itertype = Polynomial(<<>>) THEN BOOLEAN ELSE {FALSE})
    /\ pc = "start"
    /\ imap = NoMap
    /\ to_process = <<>>
    /\ n_chunks = 0
    /\ done_chunks = <<>>
    /\ active_threads = 0
    /\ running = <<>>
    /\ chan = <<>>
    /\ panicked = 0
    /\ call = [op |-> "none", limit |-> 0]
    /\ prev = NoMap
    /\ recv_order = <<>>
    /\ applied = "none"
    /\ input = <<>>
    /\ output = <<>>

Worker(op, lim, imc) == [op |-> op, limit |-> lim, imc |-> imc]

RemoveAt(s, i) == SubSeq(s, 1, i - 1) \o SubSeq(s, i + 1, Len(s))

\* ------------------------------------------------------------ IterMap::new
\* lines 663-697: partition the rows, set up the loop
NewCall(lim) ==
    /\ pc = "start"
    /\ to_process' = MakeChunks(dims, N_THREADS)
    /\ n_chunks' = Len(to_process')
    /\ done_chunks' = <<>>
    /\ active_threads' = 0
    /\ imap' = [limit |-> lim, chunks |-> <<>>]
    /\ call' = [op |-> "new", limit |-> lim]
    /\ recv_order' = <<>>
    /\ pc' = "new_loop"
    /\ UNCHANGED <<inputs, running, chan, panicked, prev>>

\* lines 698-716: one pass of the loop up to the blocking recv
NewDispatch ==
    /\ pc = "new_loop"
    /\ StillCollecting(done_chunks, n_chunks)
    /\ IF CanDispatch(active_threads, N_THREADS) /\ to_process # <<>>
       THEN /\ to_process' = AllButLast(to_process)
            /\ running' = Append(running, Worker("iterate", imap.limit, Last(to_process)))
            /\ active_threads' = AfterSpawn(active_threads)
       ELSE UNCHANGED <<to_process, running, active_threads>>
    /\ pc' = IF MustWait(active_threads', N_THREADS, to_process') THEN "new_recv" ELSE "new_loop"
    /\ UNCHANGED <<inputs, imap, n_chunks, done_chunks, chan, panicked, call, prev, recv_order>>

\* lines 717-727: rx.recv() returns a chunk.  The dispatcher keeps its own
\* sender tx for the whole call, so recv never reports a disconnected channel.
NewRecv ==
    /\ pc = "new_recv"
    /\ chan # <<>>
    /\ chan' = Tail(chan)
    /\ active_threads' = AfterRecv(active_threads)
    /\ done_chunks' = Append(done_chunks, Head(chan))
    /\ recv_order' = Append(recv_order, Head(chan).y_start)
    /\ pc' = "new_loop"
    /\ UNCHANGED <<inputs, imap, to_process, n_chunks, running, panicked, call, prev>>

\* lines 730-737: the loop is over; sort and build the map
NewFinish ==
    /\ pc = "new_loop"
    /\ ~StillCollecting(done_chunks, n_chunks)
    /\ imap' = [limit |-> imap.limit, chunks |-> SortByYStart(done_chunks)]
    /\ done_chunks' = <<>>
    /\ pc' = "idle"
    /\ UNCHANGED <<inputs, to_process, n_chunks, active_threads, running, chan, panicked,
                   call, prev, recv_order>>

\* ------------------------------------------------------ IterMap::reiterate
\* lines 749-760
ReiterateCall(lim) ==
    /\ pc = "idle"
    /\ call' = [op |-> "reiterate", limit |-> lim]
    /\ prev' = imap
    /\ recv_order' = <<>>
    /\ IF LimitDidNotGrow(lim, imap.limit)
       THEN UNCHANGED <<pc, n_chunks, done_chunks, active_threads>>
       ELSE /\ n_chunks' = Len(imap.chunks)
            /\ done_chunks' = <<>>
            /\ active_threads' = 0
            /\ pc' = "reit_loop"
    /\ UNCHANGED <<inputs, imap, to_process, running, chan, panicked>>

\* lines 761-772
ReitDispatch ==
    /\ pc = "reit_loop"
    /\ StillCollecting(done_chunks, n_chunks)
    /\ IF CanDispatch(active_threads, N_THREADS) /\ imap.chunks # <<>>
       THEN /\ imap' = [imap EXCEPT !.chunks = AllButLast(imap.chunks)]
            /\ running' = Append(running, Worker("reiterate", call.limit, Last(imap.chunks)))
            /\ active_threads' = AfterSpawn(active_threads)
       ELSE UNCHANGED <<imap, running, active_threads>>
    /\ pc' = IF MustWait(active_threads', N_THREADS, imap'.chunks) THEN "reit_recv" ELSE "reit_loop"
    /\ UNCHANGED <<inputs, to_process, n_chunks, done_chunks, chan, panicked, call, prev,
                   recv_order>>

\* lines 773-776
ReitRecv ==
    /\ pc = "reit_recv"
    /\ chan # <<>>
    /\ chan' = Tail(chan)
    /\ active_threads' = AfterRecv(active_threads)
    /\ done_chunks' = Append(done_chunks, Head(chan))
    /\ recv_order' = Append(recv_order, Head(chan).y_start)
    /\ pc' = "reit_loop"
    /\ UNCHANGED <<inputs, imap, to_process, n_chunks, running, panicked, call, prev>>

\* lines 779-782
ReitFinish ==
    /\ pc = "reit_loop"
    /\ ~StillCollecting(done_chunks, n_chunks)
    /\ imap' = [limit |-> call.limit, chunks |-> SortByYStart(done_chunks)]
    /\ done_chunks' = imap.chunks
    /\ pc' = "idle"
    /\ UNCHANGED <<inputs, to_process, n_chunks, active_threads, running, chan, panicked,
                   call, prev, recv_order>>

\* ------------------------------------------------------------ the workers
\* the closure given to thread::spawn: imc.iterate(limit) or
\* imc.reiterate(limit), then txc.send(imc)
WorkerPanics(w) ==
    IF w.op = "iterate"
    THEN ChunkIteratePanics(dims, itertype, w.imc, w.limit, overflow_checks)
    ELSE ChunkReiteratePanics(dims, itertype, w.imc, w.limit, overflow_checks)

WorkerResult(w) ==
    IF w.op = "iterate"
    THEN ChunkIterate(dims, itertype, w.imc, w.limit)
    ELSE ChunkReiterate(dims, itertype, w.imc, w.limit)

WorkerSend(i) ==
    /\ i \in 1..Len(running)
    /\ ~WorkerPanics(running[i])
    /\ chan' = Append(chan, WorkerResult(running[i]))
    /\ running' = RemoveAt(running, i)
    /\ UNCHANGED <<inputs, pc, imap, to_process, n_chunks, done_chunks, active_threads,
                   panicked, call, prev, recv_order>>

WorkerPanic(i) ==
    /\ i \in 1..Len(running)
    /\ WorkerPanics(running[i])
    /\ panicked' = panicked + 1
    /\ running' = RemoveAt(running, i)
    /\ UNCHANGED <<inputs, pc, imap, to_process, n_chunks, done_chunks, active_threads,
                   chan, call, prev, recv_order>>

Next ==
    \/ \E lim \in 0..MaxLimit : NewCall(lim)
    \/ NewDispatch
    \/ NewRecv
    \/ NewFinish
    \/ \E lim \in 0..MaxLimit : ReiterateCall(lim)
    \/ ReitDispatch
    \/ ReitRecv
    \/ ReitFinish
    \/ \E i \in 1..Len(running) : WorkerSend(i)
    \/ \E i \in 1..Len(running) : WorkerPanic(i)

Spec == Init /\ [][Next]_vars

\* ================================================================ claims
\* the row-major pixel sequence of a chunk list
RECURSIVE Pixels(_)
Pixels(chunks) ==
    IF chunks = <<>> THEN <<>> ELSE Pixels(AllButLast(chunks)) \o Last(chunks).data

\* the chunks IterMap::new builds for (d, it, lim) with T workers, in row order
NewResult(d, it, T, lim) ==
    LET todo == MakeChunks(d, T)
    IN  [n \in 1..Len(todo) |-> ChunkIterate(d, it, todo[n], lim)]

\* the plane point of the pixel at row-major position i (from 1) of the image:
\* x = origin_x + (xp/width_px)*plane_width, y = origin_y - (yp/height_px)*plane_height
RefPoint(d, i) ==
    LET xp == (i - 1) % d.xpix
        yp == (i - 1) \div d.xpix
        plane_height == FxDiv(FxMul(d.width, FromInt(d.ypix)), FromInt(d.xpix))
    IN  Cx(d.x + FxMul(FxDiv(FromInt(xp), FromInt(d.xpix)), d.width),
           d.y - FxMul(FxDiv(FromInt(yp), FromInt(d.ypix)), plane_height))

\* one application of the rule, and the rule's starting value
RuleStart(it, c) == IF it.type = "Polynomial" THEN c ELSE CxZero
RuleStep(it, z, c) ==
    CASE it.type = "Mandlebrot"       -> CxAdd(CxMul(z, z), c)
      [] it.type = "PseudoMandlebrot" -> CxAdd(CxMul(CxMul(it.a, z), z), CxMul(it.b, c))
      [] it.type = "Polynomial"       -> PolyEval(it.coefs, z)

\* the iterate exceeds the threshold after some application k..lim, z being
\* the iterate after k - 1 applications
RECURSIVE EscapesFrom(_, _, _, _, _)
EscapesFrom(it, z, c, k, lim) ==
    /\ k <= lim
    /\ LET z2 == RuleStep(it, z, c)
       IN  Diverged(z2) \/ EscapesFrom(it, z2, c, k + 1, lim)

DivergesWithin(it, c, lim) == EscapesFrom(it, RuleStart(it, c), c, 1, lim)

NPix == dims.xpix * dims.ypix
Returned      == pc = "idle"
Reiterated    == Returned /\ call.op = "reiterate" /\ call.limit > prev.limit
NonDecreasing(s) == \A i \in 1..Len(s) - 1 : s[i] <= s[i + 1]
NonIncreasing(s) == \A i \in 1..Len(s) - 1 : s[i] >= s[i + 1]

\* C1: a map computed at L and reiterated to L' > L has the limit and the
\* per-pixel counts of the map IterMap::new computes at L'.
ReiterationEquivalence ==
    Reiterated =>
        /\ imap.limit = call.limit
        /\ \A n \in 1..Len(imap.chunks) : imap.chunks[n].last_limit = call.limit
        /\ Pixels(imap.chunks) = Pixels(NewResult(dims, itertype, N_THREADS, call.limit))

ReiterationEquivalenceWitness ==
    /\ Reiterated
    /\ Pixels(imap.chunks) # Pixels(prev.chunks)
    /\ \E i \in 1..NPix : Pixels(prev.chunks)[i] < prev.limit
    /\ \E i \in 1..NPix : Pixels(prev.chunks)[i] = prev.limit /\ prev.limit > 0

\* the chunks the latest call leaves, in row order, as fixed by its arguments
ExpectedChunks ==
    IF call.op = "new" THEN NewResult(dims, itertype, N_THREADS, call.limit)
    ELSE IF call.limit <= prev.limit THEN prev.chunks
    ELSE [n \in 1..Len(prev.chunks) |->
             ChunkReiterate(dims, itertype, prev.chunks[n], call.limit)]

\* C2: whatever the order in which the workers complete, the chunks of a
\* returned map are in ascending y_start order and its row-major pixel
\* sequence is the one fixed by the call's arguments.
CompletionOrderIrrelevant ==
    Returned =>
        /\ NonDecreasing([n \in 1..Len(imap.chunks) |-> imap.chunks[n].y_start])
        /\ Pixels(imap.chunks) = Pixels(ExpectedChunks)

CompletionOrderIrrelevantWitness ==
    /\ Returned
    /\ ~NonDecreasing(recv_order)
    /\ ~NonIncreasing(recv_order)
    /\ \E i, j \in 1..NPix : Pixels(imap.chunks)[i] # Pixels(imap.chunks)[j]

Covers(imc, row) == imc.y_start <= row /\ row < imc.y_start + imc.n_rows

\* C3: in a map returned by IterMap::new every row of [0, ypix) lies in the
\* range of exactly one chunk and no chunk reaches outside [0, ypix).
RowPartitionComplete ==
    (Returned /\ call.op = "new") =>
        /\ \A row \in 0..dims.ypix - 1 :
              Cardinality({ n \in 1..Len(imap.chunks) : Covers(imap.chunks[n], row) }) = 1
        /\ \A n \in 1..Len(imap.chunks) :
              /\ imap.chunks[n].y_start >= 0
              /\ imap.chunks[n].y_start + imap.chunks[n].n_rows <= dims.ypix
              /\ Len(imap.chunks[n].data) = dims.xpix * imap.chunks[n].n_rows

RowPartitionCompleteWitness ==
    /\ Returned /\ call.op = "new"
    /\ dims.ypix % NChunks(N_THREADS) # 0
    /\ dims.ypix > NChunks(N_THREADS)

\* C4: reiterating from L to L' > L keeps every pixel whose value was below L
\* and replaces every pixel whose value was L by its count at L', in [0, L'].
ReiterationMonotone ==
    Reiterated =>
        \A i \in 1..NPix :
            LET old == Pixels(prev.chunks)[i]
                new == Pixels(imap.chunks)[i]
            IN  /\ old < prev.limit => new = old
                /\ old = prev.limit =>
                      /\ new = IterFn(itertype, RefPoint(dims, i), call.limit)
                      /\ new \in 0..call.limit

ReiterationMonotoneWitness ==
    /\ Reiterated
    /\ \E i \in 1..NPix : Pixels(prev.chunks)[i] < prev.limit
    /\ \E i \in 1..NPix : /\ Pixels(prev.chunks)[i] = prev.limit
                          /\ Pixels(imap.chunks)[i] = call.limit
    /\ \E i \in 1..NPix : /\ Pixels(prev.chunks)[i] = prev.limit
                          /\ Pixels(imap.chunks)[i] < call.limit

\* C5: reiterate(L') with L' <= the map's limit returns at once: no worker
\* is dispatched and the map is what it was.
ReiterateNoOp ==
    (call.op = "reiterate" /\ call.limit <= prev.limit) =>
        /\ pc = "idle"
        /\ imap = prev
        /\ running = <<>> /\ chan = <<>> /\ active_threads = 0

ReiterateNoOpWitness ==
    /\ call.op = "reiterate" /\ call.limit < prev.limit
    /\ NPix > 0
    /\ \E i \in 1..NPix : Pixels(imap.chunks)[i] = imap.limit

\* C6: at every point of IterMap::new and IterMap::reiterate at most
\* N_THREADS chunk computations are dispatched and not yet collected.
BoundedParallelism ==
    /\ active_threads <= N_THREADS
    /\ Len(running) + Len(chan) + panicked <= N_THREADS
    /\ pc \in {"new_loop", "new_recv", "reit_loop", "reit_recv"} =>
          active_threads = Len(running) + Len(chan) + panicked

BoundedParallelismWitness ==
    /\ pc = "new_recv"
    /\ active_threads = N_THREADS
    /\ Len(running) = N_THREADS
    /\ Len(to_process) > 1

\* the dispatcher waits in recv, nothing is in the channel and no worker is
\* left that could send
BlockedForever ==
    /\ pc \in {"new_recv", "reit_recv"}
    /\ chan = <<>>
    /\ running = <<>>

\* C7: a worker that panics before sending its chunk makes the call fail:
\* the call neither returns a map nor waits forever for the missing chunk.
WorkerFailurePropagates ==
    panicked > 0 => (pc # "idle" /\ ~BlockedForever)

\* C8: no worker ever panics while iterating its points, whatever the
\* IterType, the points and the limit.
PointIterationNeverFails == panicked = 0

\* C9: every pixel of a returned map is in [0, limit], and it equals the
\* limit exactly when its point did not diverge within limit applications.
PixelRangeAndSentinel ==
    Returned =>
        \A i \in 1..NPix :
            LET v == Pixels(imap.chunks)[i]
            IN  /\ v \in 0..imap.limit
                /\ v = imap.limit <=> ~DivergesWithin(itertype, RefPoint(dims, i), imap.limit)

PixelRangeAndSentinelWitness ==
    /\ Reiterated
    /\ \E i \in 1..NPix : Pixels(imap.chunks)[i] = imap.limit
    /\ \E i \in 1..NPix : Pixels(imap.chunks)[i] = imap.limit - 1
    /\ \E i \in 1..NPix : Pixels(imap.chunks)[i] = 0

\* every pixel of the image iterated in turn, row by row
SequentialGrid(d, it, lim) ==
    [i \in 1..d.xpix * d.ypix |-> IterFn(it, RefPoint(d, i), lim)]

\* C10: the grid IterMap::new returns is, for every worker count, the grid
\* of the pixels iterated one by one at their plane points.
WorkerCountIndependent ==
    (Returned /\ call.op = "new") =>
        Pixels(imap.chunks) = SequentialGrid(dims, itertype, imap.limit)

WorkerCountIndependentWitness ==
    /\ Returned /\ call.op = "new"
    /\ N_THREADS > 1
    /\ dims.ypix > NChunks(N_THREADS)
    /\ \E i, j \in 1..NPix : Pixels(imap.chunks)[i] # Pixels(imap.chunks)[j]

\* ============================================ single-call specifications
\* A single-call specification draws the arguments of one function from a
\* bounded set and applies the function once.  The engine takes no step in it.
engine == <<dims, itertype, N_THREADS, overflow_checks, pc, imap, to_process, n_chunks,
            done_chunks, active_threads, running, chan, panicked, call, prev, recv_order>>

EngineAtRest ==
    /\ dims = ImageDims(Xpix, 0, FromInt(-2), FromInt(1), FromInt(3))
    /\ itertype = Mandlebrot
    /\ N_THREADS = 1
    /\ overflow_checks = FALSE
    /\ pc = "start"
    /\ imap = NoMap
    /\ to_process = <<>>
    /\ n_chunks = 0
    /\ done_chunks = <<>>
    /\ active_threads = 0
    /\ running = <<>>
    /\ chan = <<>>
    /\ panicked = 0
    /\ call = [op |-> "none", limit |-> 0]
    /\ prev = NoMap
    /\ recv_order = <<>>

\* what a call leaves in `output`: the value it returns, or a panic
Returns(v) == [panic |-> FALSE, value |-> v]
Panics     == [panic |-> TRUE, value |-> 0]

\* ------------------------------------------- one call of a point iterator
MaxCoord == 18     \* points c = (re + im i) / Q with |re|, |im| <= MaxCoord

Points == { Cx(re, im) : re \in -MaxCoord..MaxCoord, im \in -MaxCoord..MaxCoord }

IterInputs ==
    { i \in [it : IterTypes, c : Points, limit : 0..MaxLimit, overflow_checks : BOOLEAN] :
        i.overflow_checks => i.it = Polynomial(<<>>) }

InitIter ==
    /\ EngineAtRest
    /\ applied = "none"
    /\ input \in IterInputs
    /\ output = Returns(0)

\* the match of IterMapChunk::iterate builds the closure f; then f(c, limit)
CallIterator ==
    /\ applied = "none"
    /\ ~MakerPanics(input.it, input.overflow_checks)
    /\ ~CallPanics(input.it, input.limit)
    /\ applied' = "iterator"
    /\ output' = Returns(IterFn(input.it, input.c, input.limit))
    /\ UNCHANGED <<engine, input>>

IteratorPanics ==
    /\ applied = "none"
    /\ MakerPanics(input.it, input.overflow_checks) \/ CallPanics(input.it, input.limit)
    /\ applied' = "iterator"
    /\ output' = Panics
    /\ UNCHANGED <<engine, input>>

NextIter ==
    \/ CallIterator
    \/ IteratorPanics

IterSpec == InitIter /\ [][NextIter]_vars

\* the iterate after k applications of the rule
RECURSIVE Iterate(_, _, _)
Iterate(it, c, k) ==
    IF k = 0 THEN RuleStart(it, c) ELSE RuleStep(it, Iterate(it, c, k - 1), c)

\* the threshold is first exceeded by the result of the k-th application
FirstExceededAt(it, c, k) ==
    /\ \A j \in 1..(k - 1) : ~Diverged(Iterate(it, c, j))
    /\ Diverged(Iterate(it, c, k))

IteratorReturned == applied = "iterator" /\ ~output.panic

\* C11 (as claimed): an iterator returns k when the threshold is first exceeded
\* by the result of the k-th application, and the limit when it is not
\* exceeded within limit applications.
EscapeCountIsApplications ==
    IteratorReturned =>
        /\ \A k \in 1..input.limit :
              FirstExceededAt(input.it, input.c, k) => output.value = k
        /\ (\A k \in 1..input.limit : ~FirstExceededAt(input.it, input.c, k))
              => output.value = input.limit

\* C11: the value an iterator returns is k - 1 when the threshold is first
\* exceeded by the result of the k-th application (1 <= k <= limit): the number
\* of applications that came before it; it is the limit when the threshold is
\* not exceeded within limit applications.
EscapeCountIsPriorApplications ==
    IteratorReturned =>
        /\ \A k \in 1..input.limit :
              FirstExceededAt(input.it, input.c, k) => output.value = k - 1
        /\ (\A k \in 1..input.limit : ~FirstExceededAt(input.it, input.c, k))
              => output.value = input.limit

\* an iterator has returned for a point whose iterate first exceeds the
\* threshold in the last application the limit allows
EscapeCountWitness ==
    /\ IteratorReturned
    /\ input.limit >= 2
    /\ FirstExceededAt(input.it, input.c, input.limit)

\* C12: with limit 0 every rule's iterator returns 0 for every point (so that
\* IterMap::new(view, rule, 0) stores 0 in every pixel).
ZeroLimitReturnsZero ==
    applied = "iterator" /\ input.limit = 0 => output = Returns(0)

\* the chunks still queued in the call in progress: to_process in
\* IterMap::new, self.chunks in IterMap::reiterate
Queue == IF pc \in {"new_loop", "new_recv"} THEN to_process ELSE imap.chunks
AtLoopHead == pc \in {"new_loop", "reit_loop"}
Waiting    == pc \in {"new_recv", "reit_recv"}
\* one pass of the dispatcher through the first half of its loop
DispatcherPass ==
    /\ AtLoopHead
    /\ pc' # "idle"
    /\ pc' # pc \/ active_threads' # active_threads

\* C13: the dispatcher waits on the completion channel exactly when the
\* in-flight count equals N_THREADS or no chunk remains queued, and a pass that
\* starts with the in-flight count below N_THREADS and a chunk queued
\* dispatches a chunk before it can wait.
DispatchBeforeWait ==
    [][ /\ Waiting => (active_threads = N_THREADS \/ Queue = <<>>)
        /\ DispatcherPass =>
            /\ (active_threads < N_THREADS /\ Queue # <<>>) =>
                  /\ Len(running') = Len(running) + 1
                  /\ Queue' = AllButLast(Queue)
                  /\ active_threads' = active_threads + 1
            /\ Waiting' <=> (active_threads' = N_THREADS \/ Queue' = <<>>) ]_vars

\* the dispatcher waits with spare capacity because nothing remains queued
DispatchBeforeWaitWitness ==
    /\ Waiting
    /\ Queue = <<>>
    /\ 0 < active_threads /\ active_threads < N_THREADS

\* ------------------------------------- the main loop: Redraw and Load
\* In this specification `input` is the message pipe from the image pane to
\* the main loop and `output` is the part of Globs that decides whether a map
\* is computed: cur_dims, cur_iter, the iterator pane's rule, and the pixel
\* dimensions of cur_imap.  Only the pixel dimensions of ImageDims are kept.
MIN_DIMENSION == 16    \* ui/img.rs:60
MaxDimension  == 17    \* largest pixel dimension typed or read from a file
MaxPipe       == 2     \* most messages in the pipe at once

DimChoices == {1, MIN_DIMENSION - 1, MIN_DIMENSION, MaxDimension}
PixDims(xpix, ypix) == [xpix |-> xpix, ypix |-> ypix]

\* Option<usize>
None    == [some |-> FALSE, n |-> 0]
Some(n) == [some |-> TRUE, n |-> n]

\* the Result of `value().parse::<usize>()` on the text of an input field
ParseErr   == [ok |-> FALSE, n |-> 0]
ParseOk(n) == [ok |-> TRUE, n |-> n]
TypedTexts == {ParseErr} \cup { ParseOk(n) : n \in DimChoices }

\* ui/img.rs 237-246 and 247-256: the check of one field
CheckedDimension(parsed) ==
    IF ~parsed.ok THEN None
    ELSE IF parsed.n < MIN_DIMENSION THEN None ELSE Some(parsed.n)

MsgRedraw(owidth, oheight) == [type |-> "Redraw", owidth |-> owidth, oheight |-> oheight]
MsgLoad == [type |-> "Load", owidth |-> None, oheight |-> None]

\* what rw::load can return: any dimensions and rule the file holds
Rules == {"Mandlebrot", "Polynomial"}
Files == [xpix : DimChoices, ypix : DimChoices, iterator : Rules]

\* Globs::recheck_and_redraw, lines 39-48 and 61-67 of main.rs
recheck_and_redraw(g, new_dims) ==
    LET should_redraw == new_dims # g.cur_dims \/ g.iter_pane # g.cur_iter
    IN  [cur_dims  |-> new_dims,
         cur_iter  |-> g.iter_pane,
         iter_pane |-> g.iter_pane,
         map_dims  |-> IF should_redraw THEN new_dims ELSE g.map_dims]

InitUi ==
    /\ EngineAtRest
    /\ applied = "none"
    /\ input = <<>>
    /\ output = [cur_dims  |-> PixDims(MaxDimension, MIN_DIMENSION),
                 cur_iter  |-> "Mandlebrot",
                 iter_pane |-> "Mandlebrot",
                 map_dims  |-> PixDims(MaxDimension, MIN_DIMENSION)]

\* ui/img.rs 236-258: Enter in the main window
EnterKey(width_text, height_text) ==
    /\ Len(input) < MaxPipe
    /\ input' = Append(input, MsgRedraw(CheckedDimension(width_text),
                                        CheckedDimension(height_text)))
    /\ applied' = "EnterKey"
    /\ UNCHANGED <<engine, output>>

\* ui/img.rs 363-366: the load button
LoadButton ==
    /\ Len(input) < MaxPipe
    /\ input' = Append(input, MsgLoad)
    /\ applied' = "LoadButton"
    /\ UNCHANGED <<engine, output>>

\* main.rs 252-264
HandleRedraw ==
    /\ input # <<>>
    /\ Head(input).type = "Redraw"
    /\ LET m == Head(input)
           new_xpix == IF m.owidth.some THEN m.owidth.n ELSE output.cur_dims.xpix
           new_ypix == IF m.oheight.some THEN m.oheight.n ELSE output.cur_dims.ypix
       IN  output' = recheck_and_redraw(output, PixDims(new_xpix, new_ypix))
    /\ input' = Tail(input)
    /\ applied' = "Redraw"
    /\ UNCHANGED engine

\* main.rs 222-237, rw::load returning Ok
HandleLoad(file) ==
    /\ input # <<>>
    /\ Head(input).type = "Load"
    /\ output' = recheck_and_redraw([output EXCEPT !.iter_pane = file.iterator],
                                    PixDims(file.xpix, file.ypix))
    /\ input' = Tail(input)
    /\ applied' = "Load"
    /\ UNCHANGED engine

\* main.rs 223-230: no file picked, or rw::load returning Err
HandleLoadFails ==
    /\ input # <<>>
    /\ Head(input).type = "Load"
    /\ input' = Tail(input)
    /\ applied' = "LoadFails"
    /\ UNCHANGED <<engine, output>>

NextUi ==
    \/ \E w \in TypedTexts, h \in TypedTexts : EnterKey(w, h)
    \/ LoadButton
    \/ HandleRedraw
    \/ \E file \in Files : HandleLoad(file)
    \/ HandleLoadFails

UiSpec == InitUi /\ [][NextUi]_vars

\* C14: no iteration map is ever computed for a view whose pixel width or
\* height is below 16, whether the dimensions come from a Redraw message or
\* from a parameter set loaded from a file.
NoMapBelowMinimumDimension ==
    /\ output.map_dims.xpix >= MIN_DIMENSION
    /\ output.map_dims.ypix >= MIN_DIMENSION

\* =================================================================== RGB
\* An f32 channel is a fixed-point number like the f64 of the engine: the
\* integer r stands for r / Q.
CHANNEL_MAX == 255     \* image.rs:55

\* the struct literal RGB { r, g, b }
RGB(r, g, b) == [r |-> r, g |-> g, b |-> b]

\* image.rs 52-60
constrain_f32(x) ==
    IF x < 0 THEN 0
    ELSE IF x > FromInt(CHANNEL_MAX) THEN FromInt(CHANNEL_MAX) ELSE x

\* RGB::new, image.rs 67-73
RGBnew(r, g, b) == RGB(constrain_f32(r), constrain_f32(g), constrain_f32(b))

\* image.rs 85-93
set_r(c, x) == [c EXCEPT !.r = constrain_f32(x)]
set_g(c, x) == [c EXCEPT !.g = constrain_f32(x)]
set_b(c, x) == [c EXCEPT !.b = constrain_f32(x)]

\* impl From<[f32; 3]> for RGB, image.rs 126-134: the fields are the array's
\* elements as they are
FromArray(a) == RGB(a[1], a[2], a[3])

\* RGB::to_rgb8, image.rs 96-98: `as u8` truncates and saturates
AsU8(x) == IF x < 0 THEN 0
           ELSE IF x \div Q > CHANNEL_MAX THEN CHANNEL_MAX ELSE x \div Q
rgb_to_rgb8(c) == <<AsU8(c.r), AsU8(c.g), AsU8(c.b)>>

\* RGB::average, image.rs 101-112, of a non-empty slice
RECURSIVE ChannelTotal(_, _)
ChannelTotal(colors, ch) ==
    IF colors = <<>> THEN 0
    ELSE ChannelTotal(AllButLast(colors), ch) + Last(colors)[ch]

averageFirstOnly(colors) == RGBnew(colors[1].r, colors[1].g, colors[1].b)
average(colors) ==
    LET nf == FromInt(Len(colors))
    IN  RGBnew(FxDiv(ChannelTotal(colors, "r"), nf),
               FxDiv(ChannelTotal(colors, "g"), nf),
               FxDiv(ChannelTotal(colors, "b"), nf))

BLACK == RGB(0, 0, 0)
WHITE == RGB(FromInt(CHANNEL_MAX), FromInt(CHANNEL_MAX), FromInt(CHANNEL_MAX))

InRange(c) ==
    \A ch \in {"r", "g", "b"} : 0 <= c[ch] /\ c[ch] <= FromInt(CHANNEL_MAX)

\* ================================================ ColorSpec and ColorMap
Gradient(steps, start, end) == [steps |-> steps, start |-> start, end |-> end]

RECURSIVE SumSteps(_)
SumSteps(gradients) ==
    IF gradients = <<>> THEN 0
    ELSE SumSteps(AllButLast(gradients)) + Last(gradients).steps

\* ColorSpec::new, image.rs 273-281
ColorSpecNew(gradients, default) ==
    [length |-> SumSteps(gradients), default |-> default, gradients |-> gradients]

\* the derived Deserialize of ColorSpec, image.rs 263-268: the three fields
\* are whatever the file holds
ColorSpecFromFile(length, default, gradients) ==
    [length |-> length, default |-> default, gradients |-> gradients]

\* ColorSpec::len, image.rs 284-286
ColorSpecLen(spec) == spec.length

\* the fraction of the way from start to end of step n of `steps`
StepFraction(n, steps) == FxDiv(FromInt(n), FromInt(steps))

\* the inner loop of ColorMap::make, image.rs 327-341
GradientColors(g) ==
    LET dr == g.end.r - g.start.r
        dg == g.end.g - g.start.g
        db == g.end.b - g.start.b
    IN  [k \in 1..g.steps |->
            LET frac == StepFraction(k - 1, g.steps)
            IN  RGBnew(g.start.r + FxMul(frac, dr),
                       g.start.g + FxMul(frac, dg),
                       g.start.b + FxMul(frac, db))]

RECURSIVE CompiledColors(_)
CompiledColors(gradients) ==
    IF gradients = <<>> THEN <<>>
    ELSE CompiledColors(AllButLast(gradients)) \o GradientColors(Last(gradients))

\* ColorMap::make, image.rs 323-344
ColorMapMake(spec) ==
    [default |-> spec.default, colors |-> CompiledColors(spec.gradients)]

\* ColorMap::len, image.rs 352-354
ColorMapLen(map) == Len(map.colors)

\* ColorMap::get, image.rs 369-374
ColorMapGetWrapping(map, n) ==
    IF map.colors = <<>> THEN map.default ELSE map.colors[(n % Len(map.colors)) + 1]
ColorMapGet(map, n) ==
    IF n < Len(map.colors) THEN map.colors[n + 1] ELSE map.default

\* ---------------------------------- ColorMap::make, then ColorMap::get
MaxSteps     == 3      \* largest step count of a gradient
MaxGradients == 2      \* most gradients in a color specification

\* a color read from a file, with two channels outside [0, 255]
OutOfRangeColor == FromArray(<<FromInt(CHANNEL_MAX + 1), 0, FromInt(-1)>>)
DefaultColor    == RGBnew(0, FromInt(CHANNEL_MAX) \div 2, FromInt(CHANNEL_MAX))

GradientEnds ==
    { <<BLACK, WHITE>>, <<WHITE, BLACK>>, <<WHITE, WHITE>>, <<OutOfRangeColor, BLACK>> }
Gradients == { Gradient(s, e[1], e[2]) : s \in 0..MaxSteps, e \in GradientEnds }
GradientLists == UNION { [1..k -> Gradients] : k \in 0..MaxGradients }

\* the specifications the color pane builds and the ones rw::load returns
ColorSpecs ==
    { ColorSpecNew(gs, DefaultColor) : gs \in GradientLists }
    \cup { ColorSpecFromFile(l, DefaultColor, gs) : l \in {0, MaxSteps}, gs \in GradientLists }

NoColorMap == [default |-> BLACK, colors |-> <<>>]

InitColorMap ==
    /\ EngineAtRest
    /\ applied = "none"
    /\ input \in [spec : ColorSpecs, n : {0}]
    /\ output = [map |-> NoColorMap, color |-> BLACK]

MakeColorMap ==
    /\ applied = "none"
    /\ applied' = "make"
    /\ output' = [output EXCEPT !.map = ColorMapMake(input.spec)]
    /\ UNCHANGED <<engine, input>>

GetColor(n) ==
    /\ applied = "make"
    /\ applied' = "get"
    /\ input' = [input EXCEPT !.n = n]
    /\ output' = [output EXCEPT !.color = ColorMapGet(output.map, n)]
    /\ UNCHANGED engine

NextColorMap ==
    \/ MakeColorMap
    \/ \E n \in 0..(MaxSteps * MaxGradients + 1) : GetColor(n)

ColorMapSpec == InitColorMap /\ [][NextColorMap]_vars

\* C15: the compiled ColorMap's len() is the sum of the gradients' step
\* counts, which is also what ColorSpec::len() reports, for every color
\* specification (zero-step gradients included).
ColorMapLengthIsSpecLength ==
    applied = "make" =>
        /\ ColorMapLen(output.map) = SumSteps(input.spec.gradients)
        /\ ColorMapLen(output.map) = ColorSpecLen(input.spec)

\* C16: ColorMap::get(n) is the n-th compiled color (from 0) when n < len()
\* and the default color when n >= len(); it has a value for every n.
GetInBoundsOrDefault ==
    applied = "get" =>
        output.color = IF input.n < ColorMapLen(output.map)
                       THEN output.map.colors[input.n + 1]
                       ELSE input.spec.default

\* get was asked for an index at or beyond the length of a non-empty map
GetInBoundsOrDefaultWitness ==
    /\ applied = "get"
    /\ ColorMapLen(output.map) > 0
    /\ input.n >= ColorMapLen(output.map)
    /\ output.color = DefaultColor

Abs(x) == IF x < 0 THEN -x ELSE x

\* channel ch of `color` is start + (n/S)*(end - start) for gradient g, up to
\* the rounding of the quotient, the product and the sum
InterpolatesChannel(color, g, n, ch) ==
    LET d == g.end[ch] - g.start[ch]
    IN  Abs(g.steps * color[ch] - (g.steps * g.start[ch] + n * d))
            <= g.steps * (Abs(d) \div Q + 2)

\* C17: the compiled array is the gradients' colors concatenated in
\* specification order; the n-th color of a gradient of S > 0 steps is
\* start + (n/S)*(end - start) in each channel, so the first color of a
\* gradient is its start color and none of its colors is its end color when
\* start and end differ.
GradientInterpolation ==
    applied = "make" =>
        /\ ColorMapLen(output.map) = SumSteps(input.spec.gradients)
        /\ \A i \in 1..Len(input.spec.gradients) :
              LET g      == input.spec.gradients[i]
                  before == SumSteps(SubSeq(input.spec.gradients, 1, i - 1))
              IN  \A n \in 0..(g.steps - 1) :
                     LET color == output.map.colors[before + n + 1]
                     IN  /\ \A ch \in {"r", "g", "b"} : InterpolatesChannel(color, g, n, ch)
                         /\ n = 0 => color = g.start
                         /\ g.start # g.end => color # g.end

\* ------------------------------------- a color and the operations on it
\* In this specification `output` is an RGB value, made and changed through
\* the public interface of RGB, and `input` holds the arguments of the latest
\* operation.
FloatChoices == { FromInt(-1), 0, FromInt(CHANNEL_MAX), FromInt(CHANNEL_MAX + 1) }

InitRgb ==
    /\ EngineAtRest
    /\ applied = "none"
    /\ input = <<>>
    /\ output = BLACK

CallNew(r, g, b) ==
    /\ applied' = "new"
    /\ input' = <<r, g, b>>
    /\ output' = RGBnew(r, g, b)
    /\ UNCHANGED engine

CallSetR(x) ==
    /\ applied' = "set_r"
    /\ input' = <<x>>
    /\ output' = set_r(output, x)
    /\ UNCHANGED engine

CallSetG(x) ==
    /\ applied' = "set_g"
    /\ input' = <<x>>
    /\ output' = set_g(output, x)
    /\ UNCHANGED engine

CallSetB(x) ==
    /\ applied' = "set_b"
    /\ input' = <<x>>
    /\ output' = set_b(output, x)
    /\ UNCHANGED engine

\* deserialization: serde(from = "[f32; 3]")
CallFrom(a) ==
    /\ applied' = "from"
    /\ input' = a
    /\ output' = FromArray(a)
    /\ UNCHANGED engine

\* the average of a slice of colors
CallAverage(colors) ==
    /\ applied' = "average"
    /\ input' = colors
    /\ output' = average(colors)
    /\ UNCHANGED engine

NextRgb ==
    \/ \E r \in FloatChoices, g \in FloatChoices, b \in FloatChoices : CallNew(r, g, b)
    \/ \E x \in FloatChoices : CallSetR(x)
    \/ \E x \in FloatChoices : CallSetG(x)
    \/ \E x \in FloatChoices : CallSetB(x)
    \/ \E a \in [1..3 -> FloatChoices] : CallFrom(a)
    \/ \E colors \in [1..2 -> {BLACK, WHITE, DefaultColor, OutOfRangeColor}] : CallAverage(colors)

RgbSpec == InitRgb /\ [][NextRgb]_vars

\* C18: every RGB value made or changed through the public interface (RGB::new,
\* set_r / set_g / set_b, the conversion from [f32; 3] that deserialization
\* uses, RGB::average) has its three channels in [0, 255].
ChannelsAlwaysInRange == InRange(output)

\* ============================================================= FImage32
FImage32(d, data) == [dims |-> d, data |-> data]

\* the inner loop of IterMap::color, image.rs 800-802
ColorChunk(chunk, map) ==
    [k \in 1..Len(chunk.data) |-> ColorMapGet(map, chunk.data[k])]

\* the loop over self.chunks, image.rs 799-803
RECURSIVE ColorChunksLastFirst(_, _)
ColorChunksLastFirst(chunks, map) ==
    IF chunks = <<>> THEN <<>>
    ELSE ColorChunk(Last(chunks), map) \o ColorChunksLastFirst(AllButLast(chunks), map)
RECURSIVE ColorChunks(_, _)
ColorChunks(chunks, map) ==
    IF chunks = <<>> THEN <<>>
    ELSE ColorChunks(AllButLast(chunks), map) \o ColorChunk(Last(chunks), map)

\* IterMap::color, image.rs 795-809
IterMapColor(d, chunks, map) == FImage32(d, ColorChunks(chunks, map))

\* ---------------------------------------------------- one IterMap::color
\* the maps IterMap::new returns and IterMap::reiterate leaves
IterMaps ==
    { [dims |-> d, limit |-> lim, chunks |-> NewResult(d, it, T, lim)] :
        d \in Views, it \in IterTypes \ {Polynomial(<<>>)},
        T \in 1..MaxThreads, lim \in 0..MaxLimit }

\* the color maps of the specifications with at most one gradient
SmallColorMaps ==
    { ColorMapMake(ColorSpecNew(gs, DefaultColor)) :
        gs \in {<<>>} \cup { <<g>> : g \in Gradients } }

InitColorImage ==
    /\ EngineAtRest
    /\ applied = "none"
    /\ input \in [imap : IterMaps, map : SmallColorMaps]
    /\ output = FImage32(PixDims(0, 0), <<>>)

CallColor ==
    /\ applied = "none"
    /\ applied' = "color"
    /\ output' = IterMapColor(input.imap.dims, input.imap.chunks, input.map)
    /\ UNCHANGED <<engine, input>>

NextColorImage ==
    \/ CallColor

ColorImageSpec == InitColorImage /\ [][NextColorImage]_vars

\* the count the map stores for pixel i (from 1, row by row from the top row):
\* the entry of the chunk holding the pixel's row
StoredCount(m, i) ==
    LET row == (i - 1) \div m.dims.xpix
        col == (i - 1) % m.dims.xpix
        ch  == CHOOSE c \in 1..Len(m.chunks) :
                  /\ m.chunks[c].y_start <= row
                  /\ row < m.chunks[c].y_start + m.chunks[c].n_rows
    IN  m.chunks[ch].data[(row - m.chunks[ch].y_start) * m.dims.xpix + col + 1]

\* C19: IterMap::color(map) yields an image with the iteration map's
\* dimensions and exactly xpix * ypix pixels; pixel i is map.get of the i-th
\* stored count, the counts taken row by row in ascending row order.
ColorImageIsPixelwiseGet ==
    applied = "color" =>
        /\ output.dims = input.imap.dims
        /\ Len(output.data) = input.imap.dims.xpix * input.imap.dims.ypix
        /\ \A i \in 1..Len(output.data) :
              output.data[i] = ColorMapGet(input.map, StoredCount(input.imap, i))

\* an image of a map of several chunks was colored, some pixels with a
\* compiled color and some with the default color
ColorImageWitness ==
    /\ applied = "color"
    /\ Len(input.imap.chunks) > 2
    /\ \E i \in 1..Len(output.data) : output.data[i] = DefaultColor
    /\ \E i \in 1..Len(output.data) : output.data[i] # DefaultColor

\* -------------------------------------------------- FImage32::to_rgb8
MAX_SCALE_FACTOR == 5      \* image.rs:33

\* byte k (from 1) of a sequence of pixels, three bytes a pixel
ByteOf(pixels, k) == rgb_to_rgb8(pixels[((k - 1) \div 3) + 1])[((k - 1) % 3) + 1]

\* image.rs 405-415
to_rgb8_full_resolution(img) ==
    [k \in 1..(3 * Len(img.data)) |-> ByteOf(img.data, k)]

SCALE_PALETTE_SIZE == MAX_SCALE_FACTOR * MAX_SCALE_FACTOR

\* image.rs 427-435: the index po + x of self.data read for output pixel
\* (xi, yi) at (x, y) of its block, and the index pp of palette written
SourceIndexSkippingRows(img, ratio, xi, yi, y, x) ==
    (yi * img.dims.xpix * ratio + xi * ratio) + img.dims.xpix * ratio * y + x
SourceIndex(img, ratio, xi, yi, y, x) ==
    LET base_offs == yi * img.dims.xpix * ratio
        offs      == base_offs + xi * ratio
        po        == offs + img.dims.xpix * y
    IN  po + x
PaletteIndex(ratio, y, x) == y * ratio + x

\* the palette filled for output pixel (xi, yi), image.rs 428-438
ScaledBlock(img, ratio, xi, yi) ==
    [pp \in 1..(ratio * ratio) |->
        LET y == (pp - 1) \div ratio
            x == (pp - 1) % ratio
        IN  img.data[SourceIndex(img, ratio, xi, yi, y, x) + 1]]

\* every pair of indices the loops of to_rgb8_scaled use: <<po + x, pp>>
ScaledAccesses(img, ratio) ==
    { <<SourceIndex(img, ratio, xi, yi, y, x), PaletteIndex(ratio, y, x)>> :
        xi \in 0..(img.dims.xpix \div ratio) - 1, yi \in 0..(img.dims.ypix \div ratio) - 1,
        y \in 0..(ratio - 1), x \in 0..(ratio - 1) }

\* an index out of range panics
to_rgb8_scaledPanics(img, ratio) ==
    \E a \in ScaledAccesses(img, ratio) :
        a[1] >= Len(img.data) \/ a[2] >= SCALE_PALETTE_SIZE

\* image.rs 420-447
to_rgb8_scaled(img, ratio) ==
    LET pix_lines == img.dims.ypix \div ratio
        pix_cols  == img.dims.xpix \div ratio
        n_pix     == pix_lines * pix_cols
        avg_p     == [p \in 1..n_pix |->
                         average(ScaledBlock(img, ratio, (p - 1) % pix_cols,
                                                         (p - 1) \div pix_cols))]
    IN  <<pix_cols, pix_lines, [k \in 1..(3 * n_pix) |-> ByteOf(avg_p, k)]>>

\* image.rs 456-468
to_rgb8Panics(img, scale_factor) ==
    /\ ~(scale_factor < 2)
    /\ IF scale_factor > MAX_SCALE_FACTOR
       THEN to_rgb8_scaledPanics(img, MAX_SCALE_FACTOR)
       ELSE to_rgb8_scaledPanics(img, scale_factor)

to_rgb8AlwaysFull(img, scale_factor) ==
    <<img.dims.xpix, img.dims.ypix, to_rgb8_full_resolution(img)>>
to_rgb8(img, scale_factor) ==
    IF scale_factor < 2
    THEN <<img.dims.xpix, img.dims.ypix, to_rgb8_full_resolution(img)>>
    ELSE IF scale_factor > MAX_SCALE_FACTOR
         THEN to_rgb8_scaled(img, MAX_SCALE_FACTOR)
         ELSE to_rgb8_scaled(img, scale_factor)

\* ---------------------------------------------- one FImage32::to_rgb8
MaxImageDim == 6       \* largest pixel width and height of an image
MaxPattern  == 2       \* images differ in how the colors repeat

\* the colors of an image: compiled colors and default colors
ImagePalette == <<BLACK, WHITE, DefaultColor, OutOfRangeColor>>

\* pixel i has color number i * p + first of the palette, taken cyclically
PatternedImage(w, h, p, first) ==
    FImage32(PixDims(w, h),
             [i \in 1..(w * h) |-> ImagePalette[((i * p + first) % Len(ImagePalette)) + 1]])

Images ==
    { PatternedImage(w, h, p, first) :
        w \in 0..MaxImageDim, h \in 0..MaxImageDim, p \in 0..MaxPattern,
        first \in 0..(Len(ImagePalette) - 1) }

InitToRgb8 ==
    /\ EngineAtRest
    /\ applied = "none"
    /\ input \in [img : Images, scale : 0..(MAX_SCALE_FACTOR + 2)]
    /\ output = <<0, 0, <<>>>>

CallToRgb8 ==
    /\ applied = "none"
    /\ applied' = "to_rgb8"
    /\ output' = IF to_rgb8Panics(input.img, input.scale) THEN Panics
                 ELSE to_rgb8(input.img, input.scale)
    /\ UNCHANGED <<engine, input>>

NextToRgb8 ==
    \/ CallToRgb8

ToRgb8Spec == InitToRgb8 /\ [][NextToRgb8]_vars

\* C20: to_rgb8(scale) returns (out_w, out_h, bytes) with out_w * out_h * 3
\* bytes for every scale >= 0; the dimensions are the image's own for
\* scale < 2 and (width / scale, height / scale) for 2 <= scale <= 5, and the
\* result for scale > 5 is the result for scale 5.
ScaledDimensionsAndLength ==
    applied = "to_rgb8" =>
        LET w == input.img.dims.xpix
            h == input.img.dims.ypix
        IN  /\ Len(output[3]) = output[1] * output[2] * 3
            /\ \A k \in 1..Len(output[3]) : output[3][k] \in 0..CHANNEL_MAX
            /\ input.scale < 2 => output[1] = w /\ output[2] = h
            /\ (2 <= input.scale /\ input.scale <= MAX_SCALE_FACTOR) =>
                  output[1] = w \div input.scale /\ output[2] = h \div input.scale
            /\ input.scale > MAX_SCALE_FACTOR =>
                  /\ output[1] = w \div MAX_SCALE_FACTOR
                  /\ output[2] = h \div MAX_SCALE_FACTOR
                  /\ output = to_rgb8_scaled(input.img, MAX_SCALE_FACTOR)

\* an image was scaled down by a factor above the maximum, trailing rows and
\* columns dropped, to at least one pixel
ScaledDimensionsWitness ==
    /\ applied = "to_rgb8"
    /\ input.scale > MAX_SCALE_FACTOR
    /\ input.img.dims.xpix > MAX_SCALE_FACTOR
    /\ input.img.dims.ypix >= MAX_SCALE_FACTOR
    /\ Len(output[3]) = 3

\* the sum of channel ch over the ratio x ratio source pixels at rows
\* yi*ratio .. yi*ratio + ratio - 1 and columns xi*ratio .. xi*ratio + ratio - 1
RECURSIVE BlockTotal(_, _, _, _, _, _)
BlockTotal(img, ratio, xi, yi, ch, n) ==
    IF n = 0 THEN 0
    ELSE LET row == yi * ratio + ((n - 1) \div ratio)
             col == xi * ratio + ((n - 1) % ratio)
         IN  BlockTotal(img, ratio, xi, yi, ch, n - 1)
                 + img.data[row * img.dims.xpix + col + 1][ch]

\* the byte of the mean total / count: 0 below 0, 255 above 255, else truncated
MeanByte(total, count) ==
    IF total < 0 THEN 0
    ELSE IF total \div (count * Q) > CHANNEL_MAX THEN CHANNEL_MAX
         ELSE total \div (count * Q)

Uniform(img) == \A i, j \in 1..Len(img.data) : img.data[i] = img.data[j]

ScaleUsed == IF input.scale > MAX_SCALE_FACTOR THEN MAX_SCALE_FACTOR ELSE input.scale
Channels  == <<"r", "g", "b">>

\* C21: for a scale k in 2..5 the output pixel at (row yi, column xi) is, in
\* each channel, the byte of the arithmetic mean of the k*k source pixels at
\* rows yi*k .. yi*k+k-1 and columns xi*k .. xi*k+k-1, trailing partial blocks
\* dropped; an image of one color yields an output of that one color.
ScaledPixelIsBlockMean ==
    (applied = "to_rgb8" /\ input.scale >= 2) =>
        LET k == ScaleUsed
            w == input.img.dims.xpix \div k
            h == input.img.dims.ypix \div k
        IN  /\ \A yi \in 0..(h - 1), xi \in 0..(w - 1), c \in 1..3 :
                  output[3][3 * (yi * w + xi) + c]
                      = MeanByte(BlockTotal(input.img, k, xi, yi, Channels[c], k * k), k * k)
            /\ Uniform(input.img) =>
                  \A p \in 1..(w * h), c \in 1..3 :
                      output[3][3 * (p - 1) + c] = rgb_to_rgb8(input.img.data[1])[c]

\* an image whose width is not a multiple of the scale was scaled down, and
\* some output byte is the byte of none of the pixels of its block
ScaledPixelWitness ==
    /\ applied = "to_rgb8"
    /\ input.scale >= 2 /\ input.scale <= MAX_SCALE_FACTOR
    /\ input.img.dims.xpix % input.scale # 0
    /\ input.img.dims.ypix \div input.scale > 1
    /\ \E yi \in 0..(output[2] - 1), xi \in 0..(output[1] - 1), c \in 1..3 :
          \A n \in 1..(input.scale * input.scale) :
              output[3][3 * (yi * output[1] + xi) + c]
                  # rgb_to_rgb8(ScaledBlock(input.img, input.scale, xi, yi)[n])[c]

\* ============================================ ImageDims: the view algebra
\* ImageDims::center, image.rs 167-169: <<c_x, c_y>>
center(d) ==
    <<d.x + FxDiv(d.width, FromInt(2)), d.y - FxDiv(height(d), FromInt(2))>>

\* ImageDims::zoom, image.rs 172-184
zoomCornerAsCenter(d, factor) ==
    ImageDims(d.xpix, d.ypix, d.x - FxDiv(FxDiv(d.width, factor), FromInt(2)),
              d.y + FxDiv(FxDiv(height(d), factor), FromInt(2)), FxDiv(d.width, factor))
zoom(d, factor) ==
    LET c   == center(d)
        n_w == FxDiv(d.width, factor)
        n_h == FxDiv(height(d), factor)
        n_x == c[1] - FxDiv(n_w, FromInt(2))
        n_y == c[2] + FxDiv(n_h, FromInt(2))
    IN  ImageDims(d.xpix, d.ypix, n_x, n_y, n_w)

\* (xpix as f64) / (ypix as f64), image.rs 193-194
Aspect(xpix, ypix) == FxDiv(FromInt(xpix), FromInt(ypix))

\* ImageDims::resize, image.rs 192-218
resizeKeepingOrigin(d, new_xpix, new_ypix) ==
    ImageDims(new_xpix, new_ypix, d.x, d.y, d.width)
resize(d, new_xpix, new_ypix) ==
    LET cur_aspect == Aspect(d.xpix, d.ypix)
        new_aspect == Aspect(new_xpix, new_ypix)
        c          == center(d)
    IN  IF new_aspect > cur_aspect
        THEN LET new_w == FxMul(height(d), new_aspect)
                 n_x   == c[1] - FxDiv(new_w, FromInt(2))
             IN  ImageDims(new_xpix, new_ypix, n_x, d.y, new_w)
        ELSE LET new_h == FxDiv(d.width, new_aspect)
                 n_y   == c[2] + FxDiv(new_h, FromInt(2))
             IN  ImageDims(new_xpix, new_ypix, d.x, n_y, d.width)

\* the literal 0.5
Half == FxDiv(FromInt(1), FromInt(2))

\* ImageDims::recenter, image.rs 224-235
recenterFromCorner(d, x_frac, y_frac) ==
    ImageDims(d.xpix, d.ypix, d.x + FxMul(x_frac, d.width),
              d.y - FxMul(y_frac, height(d)), d.width)
recenter(d, x_frac, y_frac) ==
    LET xof == x_frac - Half
        yof == y_frac - Half
        xo  == FxMul(xof, d.width)
        yo  == FxMul(yof, height(d))
    IN  ImageDims(d.xpix, d.ypix, d.x + xo, d.y - yo, d.width)

\* --------------------------------------------- one call on a view
\* In this specification `output` is a view, `input.first` the view the
\* specification started with and `input.calls` the arguments of the calls made
\* on it.  zoom may be called a second time, on the view the first zoom returned.
MaxViewPix == 3      \* largest pixel width and height of a view
MaxOrigin  == 1      \* the corner's coordinates are in -MaxOrigin..MaxOrigin (units of 1/Q)
MaxWidth   == 12     \* largest plane width (units of 1/Q)
MaxFactor  == 8      \* largest zoom factor (units of 1/Q)

PlaneViews ==
    { ImageDims(xp, yp, x, y, w) :
        xp \in 1..MaxViewPix, yp \in 1..MaxViewPix,
        x \in -MaxOrigin..MaxOrigin, y \in -MaxOrigin..MaxOrigin, w \in 1..MaxWidth }

InitView ==
    /\ EngineAtRest
    /\ applied = "none"
    /\ input \in [first : PlaneViews, calls : {<<>>}]
    /\ output = input.first

CallZoom(factor) ==
    /\ applied = "none" \/ (applied = "zoom" /\ Len(input.calls) = 1)
    /\ applied' = "zoom"
    /\ input' = [input EXCEPT !.calls = Append(@, <<factor>>)]
    /\ output' = zoom(output, factor)
    /\ UNCHANGED engine

CallResize(new_xpix, new_ypix) ==
    /\ applied = "none"
    /\ applied' = "resize"
    /\ input' = [input EXCEPT !.calls = <<<<new_xpix, new_ypix>>>>]
    /\ output' = resize(output, new_xpix, new_ypix)
    /\ UNCHANGED engine

CallRecenter(x_frac, y_frac) ==
    /\ applied = "none"
    /\ applied' = "recenter"
    /\ input' = [input EXCEPT !.calls = <<<<x_frac, y_frac>>>>]
    /\ output' = recenter(output, x_frac, y_frac)
    /\ UNCHANGED engine

NextView ==
    \/ \E factor \in 1..MaxFactor : CallZoom(factor)
    \/ \E new_xpix \in 1..MaxViewPix, new_ypix \in 1..MaxViewPix : CallResize(new_xpix, new_ypix)
    \/ \E x_frac \in 0..Q, y_frac \in 0..Q : CallRecenter(x_frac, y_frac)

ViewSpec == InitView /\ [][NextView]_vars

\* no rounding: the product, or the quotient, is a multiple of 1/Q
ExactMul(a, b) == (a * b) % Q = 0
ExactDiv(a, b) == (a * Q) % b = 0

ExactHeight(d) ==
    /\ ExactMul(d.width, FromInt(d.ypix))
    /\ ExactDiv(FxMul(d.width, FromInt(d.ypix)), FromInt(d.xpix))
ExactCenter(d) ==
    /\ ExactHeight(d)
    /\ ExactDiv(d.width, FromInt(2))
    /\ ExactDiv(height(d), FromInt(2))
ExactZoom(d, factor) ==
    /\ ExactCenter(d)
    /\ ExactDiv(d.width, factor)
    /\ ExactDiv(height(d), factor)
    /\ ExactDiv(FxDiv(d.width, factor), FromInt(2))
    /\ ExactDiv(FxDiv(height(d), factor), FromInt(2))

\* g is 1/f
Reciprocal(f, g) == FxMul(f, g) = FromInt(1) /\ ExactMul(f, g)

\* C22: zoom(1) returns the view it is called on; zoom(f) followed by
\* zoom(1/f) returns the original view (pixel dimensions, origin and plane
\* width) for every f > 0 when no operation of the two calls rounds.
ZoomAlgebra ==
    applied = "zoom" =>
        /\ (Len(input.calls) = 1 /\ input.calls[1][1] = FromInt(1)) => output = input.first
        /\ Len(input.calls) = 2 =>
              LET f   == input.calls[1][1]
                  g   == input.calls[2][1]
                  mid == zoom(input.first, f)
              IN  (Reciprocal(f, g) /\ ExactZoom(input.first, f) /\ ExactZoom(mid, g))
                      => output = input.first

\* a view was zoomed in by 2 and out again by 1/2, nothing rounded, with the
\* corner moved in both directions in between
ZoomAlgebraWitness ==
    /\ applied = "zoom"
    /\ Len(input.calls) = 2
    /\ input.calls[1][1] = FromInt(2)
    /\ Reciprocal(input.calls[1][1], input.calls[2][1])
    /\ ExactZoom(input.first, input.calls[1][1])
    /\ ExactZoom(zoom(input.first, input.calls[1][1]), input.calls[2][1])
    /\ zoom(input.first, input.calls[1][1]).x # input.first.x
    /\ zoom(input.first, input.calls[1][1]).y # input.first.y
    /\ input.first.xpix # input.first.ypix

ExactAspect(xpix, ypix) == ExactDiv(FromInt(xpix), FromInt(ypix))

\* no operation of resize, nor of center and height on its result, rounds
ExactResize(d, new_xpix, new_ypix) ==
    /\ ExactAspect(d.xpix, d.ypix)
    /\ ExactAspect(new_xpix, new_ypix)
    /\ ExactCenter(d)
    /\ IF Aspect(new_xpix, new_ypix) > Aspect(d.xpix, d.ypix)
       THEN /\ ExactMul(height(d), Aspect(new_xpix, new_ypix))
            /\ ExactDiv(FxMul(height(d), Aspect(new_xpix, new_ypix)), FromInt(2))
       ELSE /\ ExactDiv(d.width, Aspect(new_xpix, new_ypix))
            /\ ExactDiv(FxDiv(d.width, Aspect(new_xpix, new_ypix)), FromInt(2))
    /\ ExactCenter(resize(d, new_xpix, new_ypix))

ExactRecenter(d, x_frac, y_frac) ==
    /\ ExactDiv(FromInt(1), FromInt(2))
    /\ ExactHeight(d)
    /\ ExactMul(x_frac - Half, d.width)
    /\ ExactMul(y_frac - Half, height(d))
    /\ ExactMul(x_frac, d.width)
    /\ ExactMul(y_frac, height(d))
    /\ ExactCenter(recenter(d, x_frac, y_frac))

\* the point x_frac of the way across and y_frac of the way down view d
PointAt(d, x_frac, y_frac) ==
    <<d.x + FxMul(x_frac, d.width), d.y - FxMul(y_frac, height(d))>>

PcValues == {"start", "new_loop", "new_recv", "idle", "reit_loop", "reit_recv"}

\* the dispatcher can take a step: it is at the head of its loop, or in recv
\* with a chunk in the channel; every such step changes pc or active_threads,
\* and no other step does so in these states
DispatcherRuns ==
    /\ pc \in {"new_loop", "reit_loop"} \/ (pc \in {"new_recv", "reit_recv"} /\ chan # <<>>)
    /\ pc' \in PcValues
    /\ active_threads' \in 0..N_THREADS

\* a worker's thread ends: the steps that take a worker out of `running` are
\* WorkerSend(i) and WorkerPanic(i)
WorkerEnds == \E i \in 1..Len(running) : running' = RemoveAt(running, i)

LiveSpec ==
    /\ Init
    /\ [][Next]_vars
    /\ WF_<<pc, active_threads>>(DispatcherRuns)
    /\ WF_running(WorkerEnds)

InCall == pc \in {"new_loop", "new_recv", "reit_loop", "reit_recv"}

\* how often y occurs in a sequence
Occurrences(s, y) == Cardinality({ k \in 1..Len(s) : s[k] = y })

\* the chunks the latest call had to process, as queued when it was made
QueuedChunks == IF call.op = "new" THEN MakeChunks(dims, N_THREADS) ELSE prev.chunks
QueuedYStarts == [n \in 1..Len(QueuedChunks) |-> QueuedChunks[n].y_start]

\* every queued chunk has been dispatched once and collected once
EachChunkOnce ==
    /\ Queue = <<>> \/ pc = "idle"
    /\ running = <<>> /\ chan = <<>> /\ active_threads = 0
    /\ Len(recv_order) = Len(QueuedChunks)
    /\ \A y \in 0..dims.ypix : Occurrences(recv_order, y) = Occurrences(QueuedYStarts, y)

WorkedCall == call.op = "new" \/ (call.op = "reiterate" /\ call.limit > prev.limit)

\* C25: provided every dispatched worker sends its chunk (none panics), a call
\* of IterMap::new or IterMap::reiterate returns, for every chunk count and
\* every N_THREADS >= 1, with each queued chunk dispatched once and collected
\* once, and the dispatcher never waits on the channel with no chunk in flight.
DispatchLoopTerminates ==
    /\ InCall ~> (Returned \/ panicked > 0)
    /\ [](Returned /\ WorkedCall => EachChunkOnce)
    /\ [](Waiting /\ panicked = 0 => Len(running) + Len(chan) > 0 /\ active_threads > 0)

\* a reiteration of a map with a short last chunk has returned, its chunks
\* collected in an order that is neither ascending nor descending
DispatchLoopWitness ==
    /\ Returned
    /\ call.op = "reiterate" /\ call.limit > prev.limit
    /\ EachChunkOnce
    /\ Len(recv_order) > NChunks(N_THREADS)
    /\ ~NonDecreasing(recv_order) /\ ~NonIncreasing(recv_order)

\* the worker closure a call dispatches
WorkerOpOf(op) == IF op = "new" THEN "iterate" ELSE "reiterate"

\* C26: when IterMap::new or IterMap::reiterate has returned, every worker the
\* call dispatched has delivered its chunk and the chunk has been collected
\* (nothing is in flight), and every chunk computation in flight belongs to the
\* one call in progress.
NoWorkerOutlivesCall ==
    /\ pc \in {"start", "idle"} =>
          running = <<>> /\ chan = <<>> /\ active_threads = 0 /\ panicked = 0
    /\ \A i \in 1..Len(running) :
          running[i].op = WorkerOpOf(call.op) /\ running[i].limit = call.limit
    /\ \A i \in 1..Len(chan) : chan[i].last_limit = call.limit

\* IterMap::new has returned after several workers ran at once and completed
\* out of order
NoWorkerOutlivesCallWitness ==
    /\ Returned /\ call.op = "new"
    /\ N_THREADS > 1
    /\ ~NonDecreasing(recv_order)
    /\ running = <<>> /\ chan = <<>>

\* the row range and the data length of every chunk of a list, in list order
Shapes(chunks) ==
    [n \in 1..Len(chunks) |->
        <<chunks[n].y_start, chunks[n].n_rows, Len(chunks[n].data)>>]

\* the shapes of s whose number of rows is in `rows`, in order
RECURSIVE SelectShapes(_, _)
SelectShapes(s, rows) ==
    IF s = <<>> THEN <<>>
    ELSE IF Last(s)[2] \in rows
         THEN Append(SelectShapes(AllButLast(s), rows), Last(s))
         ELSE SelectShapes(AllButLast(s), rows)

\* C30: IterMap::reiterate changes only pixel values and the limit: after the
\* call, whatever the order in which the workers completed, the map has as
\* many chunks as before, every chunk has kept its row range (y_start, n_rows)
\* and its data length, and the chunks are in ascending row order, the chunks
\* that hold rows at the positions they had.  (The view and the rule are the
\* variables dims and itertype, which no step changes.)
ReiterateKeepsShape ==
    (Returned /\ call.op = "reiterate") =>
        /\ Len(imap.chunks) = Len(prev.chunks)
        /\ \A shape \in { Shapes(prev.chunks)[n] : n \in 1..Len(prev.chunks) } :
              Occurrences(Shapes(imap.chunks), shape) = Occurrences(Shapes(prev.chunks), shape)
        /\ NonDecreasing([n \in 1..Len(imap.chunks) |-> imap.chunks[n].y_start])
        /\ SelectShapes(Shapes(imap.chunks), 1..dims.ypix)
              = SelectShapes(Shapes(prev.chunks), 1..dims.ypix)
        /\ imap.limit = IF call.limit > prev.limit THEN call.limit ELSE prev.limit

\* a map of more than NChunks chunks was reiterated to a higher limit, its
\* workers completing out of order, and some pixel changed
ReiterateKeepsShapeWitness ==
    /\ Reiterated
    /\ N_THREADS > 1
    /\ Len(imap.chunks) > NChunks(N_THREADS)
    /\ ~NonDecreasing(recv_order)
    /\ Pixels(imap.chunks) # Pixels(prev.chunks)

\* C30 (as claimed): after IterMap::reiterate the chunk list has, position by
\* position, the row ranges (y_start, n_rows) and the data lengths it had.
ReiterateKeepsPositions ==
    (Returned /\ call.op = "reiterate") => Shapes(imap.chunks) = Shapes(prev.chunks)

\* ================================================= the control loop (main)
\* IterMap::new and IterMap::reiterate as functions.  The pixels of the map a
\* call returns do not depend on the order in which its workers complete, so
\* the chunks are listed here in the order of their rows; chunks without rows,
\* whose places that order does not fix, hold no pixels.  A call in which a
\* worker panics does not return.
IterMapNew(d, it, T, lim) ==
    [dims |-> d, itertype |-> it, limit |-> lim, chunks |-> NewResult(d, it, T, lim)]

IterMapNewPanics(d, it, T, lim, checks) ==
    \E n \in 1..Len(MakeChunks(d, T)) :
        ChunkIteratePanics(d, it, MakeChunks(d, T)[n], lim, checks)

IterMapReiterate(m, lim) ==
    IF LimitDidNotGrow(lim, m.limit) THEN m
    ELSE [m EXCEPT !.limit = lim,
                   !.chunks = [n \in 1..Len(m.chunks) |->
                                  ChunkReiterate(m.dims, m.itertype, m.chunks[n], lim)]]

IterMapReiteratePanics(m, lim, checks) ==
    /\ ~LimitDidNotGrow(lim, m.limit)
    /\ \E n \in 1..Len(m.chunks) :
          ChunkReiteratePanics(m.dims, m.itertype, m.chunks[n], lim, checks)

\* ----------------------------------------------- Globs::recheck_and_redraw
\* main.rs 39-59: the three flags, from the requested view and what the two
\* panes hold
ShouldRedrawOnDimsOnly(g, new_dims, new_iter) == new_dims # g.cur_dims
ShouldRedraw(g, new_dims, new_iter) == new_dims # g.cur_dims \/ new_iter # g.cur_iter
SpecChanged(g, new_spec) == new_spec # g.cur_spec
ShouldReiterateOnAnyChange(g, new_spec) == SpecChanged(g, new_spec)
ShouldReiterateNever(g, new_spec) == FALSE
ShouldReiterate(g, new_spec) ==
    /\ SpecChanged(g, new_spec)
    /\ ColorMapLen(ColorMapMake(new_spec)) > ColorMapLen(g.cur_cmap)

\* what the call did: built a color map, called IterMap::new, called
\* IterMap::reiterate
Work(g, new_dims, new_iter, new_spec) ==
    [made      |-> SpecChanged(g, new_spec),
     new       |-> ShouldRedraw(g, new_dims, new_iter),
     reiterate |-> ~ShouldRedraw(g, new_dims, new_iter) /\ ShouldReiterate(g, new_spec)]

\* main.rs 50-59: the color map after the comparison of the specifications
RecheckCmap(g, new_spec, work) ==
    IF work.made THEN ColorMapMake(new_spec) ELSE g.cur_cmap

\* main.rs 61-71: the iteration map
RecheckImap(g, new_dims, new_iter, cmap, work, T) ==
    IF work.new THEN IterMapNew(new_dims, new_iter, T, ColorMapLen(cmap))
    ELSE IF work.reiterate THEN IterMapReiterate(g.cur_imap, ColorMapLen(cmap))
    ELSE g.cur_imap

\* main.rs 73-75: the colored image
RecheckFimg(g, map, cmap, work) ==
    IF work.made \/ work.new \/ work.reiterate
    THEN IterMapColor(map.dims, map.chunks, cmap)
    ELSE g.cur_fimg

\* main.rs 33-80: Globs after the call, with the image handed to the main pane
Rechecked(g, new_dims, new_iter, new_spec, cmap, map, fimg) ==
    [cur_dims  |-> new_dims,
     cur_iter  |-> new_iter,
     cur_spec  |-> new_spec,
     cur_cmap  |-> cmap,
     cur_imap  |-> map,
     cur_fimg  |-> fimg,
     cur_scale |-> g.cur_scale,
     shown     |-> to_rgb8(fimg, g.cur_scale)]

\* the call does not return: a worker of its IterMap::new or
\* IterMap::reiterate panics
RecheckHangs(g, new_dims, new_iter, cmap, work, T, checks) ==
    \/ work.new /\ IterMapNewPanics(new_dims, new_iter, T, ColorMapLen(cmap), checks)
    \/ work.reiterate /\ IterMapReiteratePanics(g.cur_imap, ColorMapLen(cmap), checks)

\* ------------------------------------------------------- the loop's inputs
\* In this specification `output` is Globs (with the image shown by the main
\* pane) and `input` is what the latest recheck_and_redraw did.  The iterator
\* pane and the color pane hold what the user entered last: any rule and any
\* color specification, whenever a message is handled.  Pixel sizes and color
\* map lengths are scaled down; the view stays inside a window of the plane,
\* and the loop is followed through the views that the handlers compute
\* without rounding.

\* main.rs 177-183, the 900 x 600 pixels scaled down
StartDims == ImageDims(2, 2, FromInt(-2), FromInt(1), FromInt(3))

\* the window: the corner at most one unit right of and below the first
\* corner, the width between half the first width and the first width
InWindow(d) ==
    /\ StartDims.x <= d.x /\ d.x <= StartDims.x + FromInt(1)
    /\ StartDims.y - FromInt(1) <= d.y /\ d.y <= StartDims.y
    /\ FxMul(Half, StartDims.width) <= d.width /\ d.width <= StartDims.width

StartSpec == ColorSpecNew(<<Gradient(MaxLimit - 1, BLACK, WHITE)>>, WHITE)

\* the rules the iterator pane can hold
LoopRules == { Mandlebrot, Polynomial(<<>>), Polynomial(<<Cx(FromInt(-1), 0), CxZero, CxOne>>) }

\* the specifications ColorPane::get_spec can return: one gradient of 0 to
\* MaxLimit steps, and one with the colors the other way round
LoopSpecs ==
    { ColorSpecNew(<<Gradient(s, BLACK, WHITE)>>, DefaultColor) : s \in 0..MaxLimit }
    \cup { ColorSpecNew(<<Gradient(MaxLimit, WHITE, BLACK)>>, DefaultColor) }

ZoomFactors   == { FromInt(2), Half }
NudgePixels   == { <<FromInt(1), 0>>, <<FromInt(-1), 0>>, <<0, FromInt(1)>>, <<0, FromInt(-1)>> }
RecenterFracs == { <<0, 0>>, <<Half, Half>>, <<FromInt(1), Half>> }
RedrawSizes   == { None, Some(StartDims.xpix) }
Scales        == 1..StartDims.xpix
LoadedViews   == { StartDims, ImageDims(1, 2, FromInt(-1), FromInt(1), FromInt(2)) }

NoWork == [made |-> FALSE, new |-> FALSE, reiterate |-> FALSE]

\* main.rs 177-215
InitLoop ==
    /\ EngineAtRest
    /\ applied = "none"
    /\ input = NoWork
    /\ LET cmap == ColorMapMake(StartSpec)
           map  == IterMapNew(StartDims, Mandlebrot, N_THREADS, ColorMapLen(cmap))
           fimg == IterMapColor(map.dims, map.chunks, cmap)
       IN  output = [cur_dims  |-> StartDims,
                     cur_iter  |-> Mandlebrot,
                     cur_spec  |-> StartSpec,
                     cur_cmap  |-> cmap,
                     cur_imap  |-> map,
                     cur_fimg  |-> fimg,
                     cur_scale |-> 1,
                     shown     |-> to_rgb8(fimg, 1)]

\* globs.recheck_and_redraw(new_dims) in the handler of a message, the panes
\* holding any rule new_iter and any specification new_spec
Handle(g, new_dims) ==
    /\ applied # "hung"
    /\ InWindow(new_dims)
    /\ \E new_iter \in LoopRules, new_spec \in LoopSpecs :
       \E work \in {Work(g, new_dims, new_iter, new_spec)} :
       \E cmap \in {RecheckCmap(g, new_spec, work)} :
          IF RecheckHangs(g, new_dims, new_iter, cmap, work, N_THREADS, overflow_checks)
          THEN /\ applied' = "hung"
               /\ UNCHANGED <<input, output>>
          ELSE \E map \in {RecheckImap(g, new_dims, new_iter, cmap, work, N_THREADS)} :
               \E fimg \in {RecheckFimg(g, map, cmap, work)} :
                  /\ applied' = "handled"
                  /\ input' = work
                  /\ output' = Rechecked(g, new_dims, new_iter, new_spec, cmap, map, fimg)
    /\ UNCHANGED engine

\* main.rs 291-294
MsgZoom(r) ==
    /\ ExactZoom(output.cur_dims, r)
    /\ Handle(output, zoom(output.cur_dims, r))

\* main.rs 238-247
Nudged(d, fxpix, fypix) ==
    LET xfrac == FxDiv(fxpix, FromInt(d.xpix))
        yfrac == FxDiv(fypix, FromInt(d.ypix))
        dx    == FxMul(xfrac, d.width)
        dy    == FxMul(yfrac, height(d))
    IN  [d EXCEPT !.x = d.x + dx, !.y = d.y - dy]

\* no operation of the handler rounds
ExactNudge(d, fxpix, fypix) ==
    /\ ExactHeight(d)
    /\ ExactDiv(fxpix, FromInt(d.xpix))
    /\ ExactDiv(fypix, FromInt(d.ypix))
    /\ ExactMul(FxDiv(fxpix, FromInt(d.xpix)), d.width)
    /\ ExactMul(FxDiv(fypix, FromInt(d.ypix)), height(d))

MsgNudge(fxpix, fypix) ==
    /\ ExactNudge(output.cur_dims, fxpix, fypix)
    /\ Handle(output, Nudged(output.cur_dims, fxpix, fypix))

\* main.rs 248-251
MsgRecenter(xfrac, yfrac) ==
    /\ ExactRecenter(output.cur_dims, xfrac, yfrac)
    /\ Handle(output, recenter(output.cur_dims, xfrac, yfrac))

\* main.rs 252-264
Redrawn(d, owidth, oheight) ==
    LET new_xpix == IF owidth.some THEN owidth.n ELSE d.xpix
        new_ypix == IF oheight.some THEN oheight.n ELSE d.ypix
    IN  resize(d, new_xpix, new_ypix)

MsgRedrawn(owidth, oheight) ==
    /\ ExactResize(output.cur_dims, Redrawn(output.cur_dims, owidth, oheight).xpix,
                   Redrawn(output.cur_dims, owidth, oheight).ypix)
    /\ Handle(output, Redrawn(output.cur_dims, owidth, oheight))

\* main.rs 287-290
MsgScale(n) ==
    Handle([output EXCEPT !.cur_scale = n], output.cur_dims)

\* main.rs 222-237, rw::load returning Ok((dims, cspec, itype)): both panes
\* are set from the file (any rule, any specification), then read back
MsgLoaded(file_dims) ==
    Handle(output, file_dims)

NextLoop ==
    \/ \E r \in ZoomFactors : MsgZoom(r)
    \/ \E f \in NudgePixels : MsgNudge(f[1], f[2])
    \/ \E f \in RecenterFracs : MsgRecenter(f[1], f[2])
    \/ \E ow \in RedrawSizes, oh \in RedrawSizes : MsgRedrawn(ow, oh)
    \/ \E n \in Scales : MsgScale(n)
    \/ \E d \in LoadedViews : MsgLoaded(d)

LoopSpec == InitLoop /\ [][NextLoop]_vars

\* C27: a call of recheck_and_redraw that returns calls IterMap::new exactly
\* when the requested view or the rule differs from the current one; otherwise
\* it calls reiterate exactly when the specification changed and the new
\* compiled map is longer than the current one; otherwise the iteration map is
\* left as it was; and the compiled color map is rebuilt exactly when the
\* specification differs from the current one.
RecomputeDecision ==
    [][applied' = "handled" =>
         LET view_or_rule == \/ output'.cur_dims # output.cur_dims
                             \/ output'.cur_iter # output.cur_iter
             spec_differs == output'.cur_spec # output.cur_spec
             longer       == ColorMapLen(ColorMapMake(output'.cur_spec))
                                 > ColorMapLen(output.cur_cmap)
         IN  /\ input'.new <=> view_or_rule
             /\ input'.reiterate <=> (~view_or_rule /\ spec_differs /\ longer)
             /\ input'.made <=> spec_differs
             /\ input'.new =>
                   output'.cur_imap = IterMapNew(output'.cur_dims, output'.cur_iter, N_THREADS,
                                                 ColorMapLen(output'.cur_cmap))
             /\ input'.reiterate =>
                   output'.cur_imap = IterMapReiterate(output.cur_imap,
                                                       ColorMapLen(output'.cur_cmap))
             /\ (~input'.new /\ ~input'.reiterate) => output'.cur_imap = output.cur_imap
             /\ output'.cur_cmap = IF spec_differs THEN ColorMapMake(output'.cur_spec)
                                   ELSE output.cur_cmap]_vars

\* a call has re-iterated the map up to a longer color map
RecomputeDecisionWitness ==
    /\ applied = "handled"
    /\ input = [made |-> TRUE, new |-> FALSE, reiterate |-> TRUE]
    /\ output.cur_imap.limit = ColorMapLen(output.cur_cmap)
    /\ output.cur_imap.limit > 0

\* the image a fresh iteration map for (cur_dims, cur_iter, cur_cmap.len())
\* gives when colored with cur_cmap
FreshImage(g) ==
    IterMapColor(g.cur_dims,
                 IterMapNew(g.cur_dims, g.cur_iter, N_THREADS, ColorMapLen(g.cur_cmap)).chunks,
                 g.cur_cmap)

\* C28: after initialisation and after every call of recheck_and_redraw that
\* returns, whatever the messages and the changes of the color specification
\* and of the rule before it, the float image held equals the image of a fresh
\* iteration map for (cur_dims, cur_iter, cur_cmap.len()) colored with cur_cmap.
CacheCoherence ==
    applied # "hung" =>
        /\ ~IterMapNewPanics(output.cur_dims, output.cur_iter, N_THREADS,
                             ColorMapLen(output.cur_cmap), overflow_checks)
        /\ output.cur_fimg = FreshImage(output)

\* the specification was shortened and then lengthened: reiterate was called
\* with a limit the map had already reached
CacheCoherenceWitness ==
    /\ applied = "handled"
    /\ input.reiterate
    /\ output.cur_imap.limit > ColorMapLen(output.cur_cmap)
    /\ output.cur_iter # Mandlebrot

\* C29: after initialisation and after every call of recheck_and_redraw that
\* returns, the iteration map's limit is at least the length of the compiled
\* color map, and the map's view and rule are cur_dims and cur_iter.
MapCoversColors ==
    applied # "hung" =>
        /\ output.cur_imap.limit >= ColorMapLen(output.cur_cmap)
        /\ output.cur_imap.dims = output.cur_dims
        /\ output.cur_imap.itertype = output.cur_iter

\* the specification was shortened: the map keeps the longer limit
MapCoversColorsWitness ==
    /\ applied = "handled"
    /\ input = [made |-> TRUE, new |-> FALSE, reiterate |-> FALSE]
    /\ output.cur_imap.limit > ColorMapLen(output.cur_cmap)
    /\ output.cur_dims # StartDims

\* ================================================= the partition into chunks
\* IterMap::new has just built its queue: nothing is dispatched yet
JustQueued == pc = "new_loop" /\ Len(to_process) = n_chunks /\ done_chunks = <<>>

\* 2T chunks of ypix div 2T rows each, one after the other from row 0, and
\* after them one chunk with the remaining rows exactly when rows remain
EqualChunksThenRemainder ==
    LET n == CHUNKS_PER_THREAD * N_THREADS
        h == dims.ypix \div n
    IN  /\ Len(to_process) \in {n, n + 1}
        /\ \A k \in 1..n : to_process[k].n_rows = h /\ to_process[k].y_start = (k - 1) * h
        /\ Len(to_process) = n + 1 <=> dims.ypix > n * h
        /\ Len(to_process) = n + 1 =>
              /\ to_process[n + 1].y_start = n * h
              /\ to_process[n + 1].n_rows = dims.ypix - n * h

FinalChunkRows == to_process[Len(to_process)].n_rows
EqualChunkRows == dims.ypix \div (CHUNKS_PER_THREAD * N_THREADS)
HasFinalChunk  == Len(to_process) = CHUNKS_PER_THREAD * N_THREADS + 1

\* C31 (as claimed): the queue IterMap::new builds is 2T chunks of equal
\* height followed, when rows remain, by one final chunk with the remainder
\* rows, and the final chunk is never taller than the equal-height chunks.
PartitionFinalNeverTaller ==
    JustQueued =>
        /\ EqualChunksThenRemainder
        /\ HasFinalChunk => FinalChunkRows <= EqualChunkRows

\* C31: the queue IterMap::new builds is 2T chunks of equal height
\* (ypix div 2T) followed, when rows remain, by one final chunk with the
\* remainder rows; the final chunk has fewer than 2T rows, and it is taller
\* than the equal-height chunks exactly when ypix mod 2T > ypix div 2T.
PartitionShape ==
    JustQueued =>
        /\ EqualChunksThenRemainder
        /\ HasFinalChunk =>
              /\ FinalChunkRows = dims.ypix % (CHUNKS_PER_THREAD * N_THREADS)
              /\ FinalChunkRows < CHUNKS_PER_THREAD * N_THREADS
              /\ FinalChunkRows > EqualChunkRows
                    <=> dims.ypix % (CHUNKS_PER_THREAD * N_THREADS) > EqualChunkRows

\* a queue whose final chunk is taller than the equal-height chunks
PartitionShapeWitness ==
    /\ JustQueued
    /\ HasFinalChunk
    /\ FinalChunkRows > EqualChunkRows

\* =================================================== the polynomial rule
\* z^k, and the sum of the terms v[i] * z^(i + shift) for the first n
\* coefficients (v[0] is the sequence's first element)
RECURSIVE CxPow(_, _)
CxPow(z, k) == IF k = 0 THEN CxOne ELSE CxMul(CxPow(z, k - 1), z)

RECURSIVE TermSum(_, _, _, _)
TermSum(v, z, n, shift) ==
    IF n = 0 THEN CxZero
    ELSE CxAdd(TermSum(v, z, n - 1, shift), CxMul(v[n], CxPow(z, n - 1 + shift)))

\* the polynomial with v[0] as its constant term, and the polynomial in which
\* v[0] multiplies z
WithConstantTerm(v, z)    == TermSum(v, z, Len(v), 0)
WithoutConstantTerm(v, z) == TermSum(v, z, Len(v), 1)

\* the count an iterator returns when it starts from z0 and each step is the
\* stated one: the number of steps before the first that exceeds the threshold
StatedStep(it, z, c) ==
    IF it.type = "Polynomial" THEN WithConstantTerm(it.coefs, z) ELSE RuleStep(it, z, c)

RECURSIVE StatedCount(_, _, _, _, _)
StatedCount(it, z, c, n, limit) ==
    IF n >= limit THEN limit
    ELSE LET z2 == StatedStep(it, z, c)
         IN  IF Diverged(z2) THEN n ELSE StatedCount(it, z2, c, n + 1, limit)

StatedStart(it, c) == IF it.type = "Polynomial" THEN c ELSE CxZero

NonEmptyPolynomial(it) == it.type = "Polynomial" /\ it.coefs # <<>>

CallIterates ==
    { Iterate(input.it, input.c, k) :
        k \in { i \in 0..(input.limit - 1) :
                  \A j \in 1..i : ~Diverged(Iterate(input.it, input.c, j)) } }

ScaleUsedBy(scale_factor) ==
    IF scale_factor > MAX_SCALE_FACTOR THEN MAX_SCALE_FACTOR ELSE scale_factor

\* C34: for an image whose data has width * height pixels and a scale of 2 to
\* 5, images narrower or shorter than the scale included, to_rgb8_scaled reads
\* only indices below width * height of the data, writes only indices below 25
\* of its palette, and does not panic.
ScaledStaysInBounds ==
    (applied = "to_rgb8" /\ input.scale >= 2) =>
        /\ output # Panics
        /\ \A a \in ScaledAccesses(input.img, ScaleUsedBy(input.scale)) :
              /\ a[1] < input.img.dims.xpix * input.img.dims.ypix
              /\ a[1] < Len(input.img.data)
              /\ a[2] < SCALE_PALETTE_SIZE

\* a conversion at the largest scale that read the last pixel of the data and
\* wrote the last place of the palette
ScaledStaysInBoundsWitness ==
    /\ applied = "to_rgb8"
    /\ input.scale = MAX_SCALE_FACTOR
    /\ <<Len(input.img.data) - 1, SCALE_PALETTE_SIZE - 1>>
           \in ScaledAccesses(input.img, MAX_SCALE_FACTOR)


\* ------------------------------------------------- ImgPane::set_image
\* the image of im_frame: none before the first accepted call
NoImage == [shown |-> FALSE, w |-> 0, h |-> 0, data |-> <<>>]
RgbImage(w, h, data) == [shown |-> TRUE, w |-> w, h |-> h, data |-> data]

\* ui/img.rs 71-72 and 186-187: the two fields set_image writes
ImgPane(image_data, im_frame) == [image_data |-> image_data, im_frame |-> im_frame]

set_imageUnchecked(pane, xpix, ypix, data) ==
    ImgPane(data, RgbImage(xpix, ypix, data))

\* ui/img.rs 377-398
set_image(pane, xpix, ypix, data) ==
    LET npix == xpix * ypix
    IN  IF npix * 3 # Len(data) THEN pane
        ELSE ImgPane(data, RgbImage(xpix, ypix, data))

\* the images IterMap::color returns for the Mandlebrot maps of limit MaxLimit
ColoredImages ==
    { IterMapColor(d, NewResult(d, Mandlebrot, 1, MaxLimit), map) :
        d \in Views, map \in SmallColorMaps }

\* byte vectors of several lengths, the empty one among them
RgbData ==
    { to_rgb8(img, 1)[3] :
        img \in { PatternedImage(Xpix, h, 1, 0) : h \in 0..MaxPattern } }

InitPane ==
    /\ EngineAtRest
    /\ applied = "none"
    /\ input = <<0, 0, <<>>>>
    /\ output = ImgPane(<<>>, NoImage)

\* main.rs 77: what to_rgb8 returns for the colored images at every scale
RgbTriples ==
    { to_rgb8(p[1], p[2]) :
        p \in { q \in ColoredImages \X (0..(MAX_SCALE_FACTOR + 1)) :
                    ~to_rgb8Panics(q[1], q[2]) } }

\* main.rs 77-79: the image of the current map is converted and shown
Redraw(t) ==
    /\ input' = t
    /\ output' = set_image(output, t[1], t[2], t[3])
    /\ applied' = "redrawn"
    /\ UNCHANGED engine

\* a call of set_image with any height and any of the byte vectors
SetImage(xpix, ypix, data) ==
    /\ input' = <<xpix, ypix, data>>
    /\ output' = set_image(output, xpix, ypix, data)
    /\ applied' = "set_image"
    /\ UNCHANGED engine

NextPane ==
    \/ \E t \in RgbTriples : Redraw(t)
    \/ \E ypix \in 0..MaxPattern, data \in RgbData : SetImage(Xpix, ypix, data)

PaneSpec == InitPane /\ [][NextPane]_vars

Mismatched(made) == Len(made[3]) # made[1] * made[2] * 3

MaxChoosers == 3       \* most gradient choosers in the pane

\* ui/color.rs 371-376: the fields insert and remove use
ColorPaneGuts(choosers, default_color) ==
    [choosers |-> choosers, default_color |-> default_color]

\* a GradientChooser holding gradient g: its two color cells
GradientChooser(g) == [start_color |-> g.start, end_color |-> g.end]

\* Vec::insert(n, e): panics when n is past the length
VecInsert(v, n, e) == SubSeq(v, 1, n) \o <<e>> \o SubSeq(v, n + 1, Len(v))
VecInsertPanics(v, n) == n > Len(v)

\* ui/color.rs 539-556: the colors of the new gradient
InsertedGradient(guts, n) ==
    LET choosers == guts.choosers
        new_start == IF n = 0 THEN BLACK
                     ELSE IF n >= Len(choosers)
                          THEN (IF choosers = <<>> THEN BLACK ELSE Last(choosers).end_color)
                          ELSE choosers[n].end_color
        new_end   == IF n = 0
                     THEN (IF choosers = <<>> THEN guts.default_color
                           ELSE choosers[1].start_color)
                     ELSE IF n >= Len(choosers) THEN guts.default_color
                          ELSE choosers[n + 1].start_color
    IN  Gradient(256, new_start, new_end)

\* ui/color.rs 538-568
insert(guts, n) ==
    IF VecInsertPanics(guts.choosers, n) THEN Panics
    ELSE Returns(ColorPaneGuts(VecInsert(guts.choosers, n,
                                         GradientChooser(InsertedGradient(guts, n))),
                               guts.default_color))

\* ui/color.rs 577-584
remove(guts, n) ==
    IF n < Len(guts.choosers)
    THEN ColorPaneGuts(SubSeq(guts.choosers, 1, n)
                           \o SubSeq(guts.choosers, n + 2, Len(guts.choosers)),
                       guts.default_color)
    ELSE guts

\* ui/color.rs 380-407: a pane of no gradient or of one
InitGuts ==
    /\ EngineAtRest
    /\ applied = "none"
    /\ input = 0
    /\ \E cs \in {<<>>, <<GradientChooser(Gradient(256, BLACK, WHITE))>>} :
          output = Returns(ColorPaneGuts(cs, DefaultColor))

\* a call of insert(n), n at most one past the length
CallInsert(n) ==
    /\ ~output.panic
    /\ Len(output.value.choosers) < MaxChoosers
    /\ n <= Len(output.value.choosers) + 1
    /\ applied' = "insert"
    /\ input' = n
    /\ output' = insert(output.value, n)
    /\ UNCHANGED engine

\* ui/color.rs 571-573
CallAppend ==
    /\ ~output.panic
    /\ Len(output.value.choosers) < MaxChoosers
    /\ applied' = "append"
    /\ input' = Len(output.value.choosers)
    /\ output' = insert(output.value, Len(output.value.choosers))
    /\ UNCHANGED engine

\* a call of remove(n)
CallRemove(n) ==
    /\ ~output.panic
    /\ applied' = "remove"
    /\ input' = n
    /\ output' = Returns(remove(output.value, n))
    /\ UNCHANGED engine

\* ui/color.rs 496-501: the user picks another default color
SetDefaultColor(c) ==
    /\ ~output.panic
    /\ applied' = "default"
    /\ input' = 0
    /\ output' = Returns(ColorPaneGuts(output.value.choosers, c))
    /\ UNCHANGED engine

NextGuts ==
    \/ \E n \in 0..(MaxChoosers + 1) : CallInsert(n)
    \/ CallAppend
    \/ \E n \in 0..MaxChoosers : CallRemove(n)
    \/ \E c \in {BLACK, WHITE, DefaultColor} : SetDefaultColor(c)

GutsSpec == InitGuts /\ [][NextGuts]_vars

\* C36: insert(n) returns whatever n is; with n past the number of choosers
\* the new chooser is the last one, otherwise it is at position n, and the
\* choosers that were at n and after it are one position later
InsertAppendsPastEnd ==
    [][ applied' = "insert" =>
          /\ ~output'.panic
          /\ LET old == output.value.choosers
                 new == output'.value.choosers
                 pos == IF input' > Len(old) THEN Len(old) ELSE input'
             IN  /\ Len(new) = Len(old) + 1
                 /\ \A k \in 1..pos : new[k] = old[k]
                 /\ new[pos + 1] = GradientChooser(InsertedGradient(output.value, input'))
                 /\ \A k \in (pos + 1)..Len(old) : new[k + 1] = old[k] ]_vars

\* the rest of the claim holds: a call of insert(n) with n at most the number
\* of choosers places the new chooser at n and moves the later ones by one
InsertWithinRange ==
    [][ (applied' = "insert" /\ input' <= Len(output.value.choosers)) =>
          /\ ~output'.panic
          /\ LET old == output.value.choosers
                 new == output'.value.choosers
             IN  /\ Len(new) = Len(old) + 1
                 /\ \A k \in 1..input' : new[k] = old[k]
                 /\ new[input' + 1] = GradientChooser(InsertedGradient(output.value, input'))
                 /\ \A k \in (input' + 1)..Len(old) : new[k + 1] = old[k] ]_vars

\* insert was called with n past the number of choosers
InsertPastEnd == applied = "insert" /\ output.panic


\* ---------------------------------------------------------- IterPane
MaxCoefs == 4          \* most coefficient rows the pane is given

\* ui/iter.rs 135-141 and the coef_del button: what the callbacks use
IterPane(selector, coefs, del_active) ==
    [selector |-> selector, coefs |-> coefs, del_active |-> del_active]

\* ui/iter.rs 129: DEFAULT_COEFS, as the values the three rows hold; the first,
\* 0.7 at the angle 0.63 pi, is replaced by 1
DEFAULT_COEFS == <<CxOne, CxZero, CxOne>>

\* ui/iter.rs 160-164 and 226-244: the selector and the rows of IterPane::new
IterPaneNew(initial_state) ==
    IterPane(IF initial_state.type = "Mandlebrot" THEN 0
             ELSE IF initial_state.type = "PseudoMandlebrot" THEN 1 ELSE 2,
             IF initial_state.type = "Polynomial" THEN initial_state.coefs
             ELSE DEFAULT_COEFS,
             TRUE)

\* ui/iter.rs 286: whether the callback pops the last row
CanPopLast(n) == n > 0
CanPop(n) == n > 1

\* ui/iter.rs 281-312: the coef_del callback
coef_del(pane) ==
    LET cs == IF CanPop(Len(pane.coefs))
              THEN SubSeq(pane.coefs, 1, Len(pane.coefs) - 1)
              ELSE pane.coefs
        n  == Len(cs)
    IN  IterPane(pane.selector, cs, IF n > 1 THEN pane.del_active ELSE FALSE)

\* ui/iter.rs 314-340: the coef_add callback; the new row holds 0
coef_add(pane) ==
    IterPane(pane.selector, Append(pane.coefs, CxZero), pane.del_active)

\* ui/iter.rs 367-382
get_itertype(pane) ==
    IF pane.selector = 0 THEN Mandlebrot
    ELSE IF pane.selector = 1 THEN PseudoMandlebrot(CxOne, CxOne)
    ELSE Polynomial(pane.coefs)

\* the rules a pane is opened with: the three kinds, the polynomials of one
\* coefficient or more
InitialStates ==
    { Mandlebrot, PseudoMandlebrot(CxOne, CxOne) }
        \cup { Polynomial([k \in 1..n |-> CxOne]) : n \in 1..(MaxCoefs - 1) }

InitIterPane ==
    /\ EngineAtRest
    /\ applied = "none"
    /\ input = 0
    /\ \E s \in InitialStates : output = IterPaneNew(s)

\* ui/iter.rs 258-278: the user chooses a kind of rule
Select(v) ==
    /\ applied' = "select"
    /\ input' = v
    /\ output' = IterPane(v, output.coefs, output.del_active)
    /\ UNCHANGED engine

\* the user presses "decrease degree": the polynomial rows are active and
\* so is the button
PressDel ==
    /\ output.selector = 2
    /\ output.del_active
    /\ applied' = "coef_del"
    /\ input' = Len(output.coefs)
    /\ output' = coef_del(output)
    /\ UNCHANGED engine

\* the user presses "increase degree"
PressAdd ==
    /\ output.selector = 2
    /\ Len(output.coefs) < MaxCoefs
    /\ applied' = "coef_add"
    /\ input' = Len(output.coefs)
    /\ output' = coef_add(output)
    /\ UNCHANGED engine

\* the user types another value into row k
EditCoef(k, z) ==
    /\ output.selector = 2
    /\ k \in 1..Len(output.coefs)
    /\ applied' = "edit"
    /\ input' = k
    /\ output' = IterPane(output.selector, [output.coefs EXCEPT ![k] = z],
                          output.del_active)
    /\ UNCHANGED engine

NextIterPane ==
    \/ \E v \in 0..2 : Select(v)
    \/ PressDel
    \/ PressAdd
    \/ \E k \in 1..MaxCoefs, z \in {CxZero, CxOne} : EditCoef(k, z)

IterPaneSpec == InitIterPane /\ [][NextIterPane]_vars

\* C37: a pane opened with one coefficient or more always has one or more,
\* and get_itertype never returns a polynomial of no coefficient
CoefficientsNeverEmpty ==
    /\ Len(output.coefs) >= 1
    /\ get_itertype(output) # Polynomial(<<>>)

\* "decrease degree" was pressed with one coefficient left, and the
\* polynomial is the selected rule
CoefficientsNeverEmptyWitness ==
    /\ applied = "coef_del"
    /\ input = 1
    /\ output.selector = 2
    /\ Len(output.coefs) = 1

\* C38: whenever the pane has more than one coefficient the "decrease
\* degree" button is active
DecreaseActiveWhenSeveral ==
    Len(output.coefs) > 1 => output.del_active

\* the degree was raised after the list was down to one coefficient
RaisedAfterSingle ==
    /\ applied = "coef_add"
    /\ input = 1
    /\ Len(output.coefs) = 2
    /\ ~output.del_active

====
